---- MODULE Spec2Model ----
(***************************************************************************)
(* Dual-storage todo service: a primary document store (MongoDB through    *)
(* TodoRepository), a hash ledger (the TodoRegistry contract reached       *)
(* through BlockchainService) and the TodoService that commits to the      *)
(* store synchronously and mirrors a content hash to the ledger in         *)
(* detached background promises.                                           *)
(***************************************************************************)
EXTENDS Integers, Sequences, FiniteSets, TLC

(***************************************************************************)
(* Bounds of the model.                                                    *)
(***************************************************************************)
MaxTodos == 1
MaxRequests == 3
MaxToggling == 2

TodoIds == 1..MaxTodos
Users == {"u1", "u2"}

(* JavaScript undefined for optional string fields, and for optional dates *)
Undefined == "undefined"
NoDate == 0

(* BlockchainSyncStatus *)
PENDING == "pending"
SYNCED == "synced"
FAILED == "failed"

(* TodoPriority *)
MEDIUM == "medium"
HIGH == "high"

(* the signing identity of the one BlockchainService wallet *)
Wallet == "wallet"

VARIABLES
    todos,      \* primary store: todo id -> document (exists = FALSE: no document)
    ledger,     \* TodoRegistry.todos: todo id -> TodoRecord (timestamp = 0: no record)
    tasks,      \* detached background sync promises that have not settled
    toggling,   \* toggleComplete requests between findById and save
    resp,       \* the last result handed back to a caller of the service
    nreq,       \* number of requests accepted so far; also the clock
    hist,       \* history: what has happened to each todo since it was created
    users,      \* User collection: user id -> document (exists = FALSE: no document)
    verifying   \* verifyTodo requests between their awaits

vars == <<todos, ledger, tasks, toggling, resp, nreq, hist, users, verifying>>

(***************************************************************************)
(* HashService                                                             *)
(***************************************************************************)
(* new Date(): the time of the call *)
clock == nreq + 1

toISOString(d) == "T" \o ToString(d)

(* crypto sha256 digest in hex: collision resistant, modelled as an        *)
(* injective encoding of the pre-image                                     *)
sha256hex(s) == "<" \o s \o ">"

(* mutant of generateTodoHash: the update time is hashed as well *)
generateTodoHashWithUpdatedAt(todo) ==
    LET dataString ==
            todo.userId \o "|"
         \o todo.title \o "|"
         \o (IF todo.description = Undefined THEN "" ELSE todo.description) \o "|"
         \o (IF todo.isCompleted THEN "true" ELSE "false") \o "|"
         \o (IF todo.priority = Undefined THEN "medium" ELSE todo.priority) \o "|"
         \o (IF todo.dueDate = NoDate THEN "" ELSE toISOString(todo.dueDate)) \o "|"
         \o (IF todo.createdAt = NoDate THEN toISOString(clock)
                                        ELSE toISOString(todo.createdAt)) \o "|"
         \o toISOString(todo.updatedAt)
    IN  "0x" \o sha256hex(dataString)

generateTodoHash(todo) ==
    LET dataString ==
            todo.userId \o "|"
         \o todo.title \o "|"
         \o (IF todo.description = Undefined THEN "" ELSE todo.description) \o "|"
         \o (IF todo.isCompleted THEN "true" ELSE "false") \o "|"
         \o (IF todo.priority = Undefined THEN "medium" ELSE todo.priority) \o "|"
         \o (IF todo.dueDate = NoDate THEN "" ELSE toISOString(todo.dueDate)) \o "|"
         \o (IF todo.createdAt = NoDate THEN toISOString(clock)
                                        ELSE toISOString(todo.createdAt))
    IN  "0x" \o sha256hex(dataString)

(***************************************************************************)
(* TodoRegistry (the ledger contract)                                      *)
(***************************************************************************)
ZeroHash == "0x0"

NoRecord == [todoHash |-> ZeroHash, owner |-> "", timestamp |-> 0, isDeleted |-> FALSE]

Reverted(l, msg) == [ok |-> FALSE, error |-> msg, ledger |-> l]
Mined(l) == [ok |-> TRUE, error |-> "", ledger |-> l]

(* the empty string as a todo id; no handler passes it *)
EmptyId == 0

(* modifier todoExists: todos[todoId].timestamp > 0 *)
RecordExists(l, todoId) == todoId \in DOMAIN l /\ l[todoId].timestamp > 0

(* mutant of OwnerCheck: the owner is not compared with the sender *)
OwnerCheckAnySender(l, sender, todoId) ==
    IF todoId = EmptyId THEN "Todo ID cannot be empty" ELSE ""

(* modifier onlyTodoOwner *)
OwnerCheck(l, sender, todoId) ==
    IF todoId = EmptyId THEN "Todo ID cannot be empty"
    ELSE IF l[todoId].owner # sender THEN "Not authorized: caller is not the todo owner"
    ELSE ""

(* mutant of Registry_createTodo: an existing record is overwritten *)
Registry_createTodoOverwrite(l, sender, blockTime, todoId, todoHash) ==
    IF todoId = EmptyId THEN Reverted(l, "Todo ID cannot be empty")
    ELSE IF todoHash = ZeroHash THEN Reverted(l, "Todo hash cannot be empty")
    ELSE Mined([l EXCEPT ![todoId] = [todoHash |-> todoHash, owner |-> sender,
                                      timestamp |-> blockTime, isDeleted |-> FALSE]])

Registry_createTodo(l, sender, blockTime, todoId, todoHash) ==
    IF todoId = EmptyId THEN Reverted(l, "Todo ID cannot be empty")
    ELSE IF todoHash = ZeroHash THEN Reverted(l, "Todo hash cannot be empty")
    ELSE IF RecordExists(l, todoId) THEN Reverted(l, "Todo already exists")
    ELSE Mined([l EXCEPT ![todoId] = [todoHash |-> todoHash, owner |-> sender,
                                      timestamp |-> blockTime, isDeleted |-> FALSE]])

(* mutant of Registry_updateTodo: the hash and the deletion flag are      *)
(* checked before the owner                                              *)
Registry_updateTodoStateFirst(l, sender, todoId, newHash) ==
    IF ~RecordExists(l, todoId) THEN Reverted(l, "Todo does not exist")
    ELSE IF newHash = ZeroHash THEN Reverted(l, "New hash cannot be empty")
    ELSE IF l[todoId].isDeleted THEN Reverted(l, "Cannot update deleted todo")
    ELSE IF OwnerCheck(l, sender, todoId) # "" THEN Reverted(l, OwnerCheck(l, sender, todoId))
    ELSE Mined([l EXCEPT ![todoId].todoHash = newHash])

(* mutant of Registry_updateTodo: a deleted record can be updated *)
Registry_updateTodoDeleted(l, sender, todoId, newHash) ==
    IF ~RecordExists(l, todoId) THEN Reverted(l, "Todo does not exist")
    ELSE IF OwnerCheck(l, sender, todoId) # "" THEN Reverted(l, OwnerCheck(l, sender, todoId))
    ELSE IF newHash = ZeroHash THEN Reverted(l, "New hash cannot be empty")
    ELSE Mined([l EXCEPT ![todoId].todoHash = newHash])

Registry_updateTodo(l, sender, todoId, newHash) ==
    IF ~RecordExists(l, todoId) THEN Reverted(l, "Todo does not exist")
    ELSE IF OwnerCheck(l, sender, todoId) # "" THEN Reverted(l, OwnerCheck(l, sender, todoId))
    ELSE IF newHash = ZeroHash THEN Reverted(l, "New hash cannot be empty")
    ELSE IF l[todoId].isDeleted THEN Reverted(l, "Cannot update deleted todo")
    ELSE Mined([l EXCEPT ![todoId].todoHash = newHash])

(* mutant of Registry_deleteTodo: the record is removed from the mapping *)
Registry_deleteTodoErase(l, sender, todoId) ==
    IF ~RecordExists(l, todoId) THEN Reverted(l, "Todo does not exist")
    ELSE IF OwnerCheck(l, sender, todoId) # "" THEN Reverted(l, OwnerCheck(l, sender, todoId))
    ELSE IF l[todoId].isDeleted THEN Reverted(l, "Todo is already deleted")
    ELSE Mined([l EXCEPT ![todoId] = NoRecord])

(* mutant of Registry_deleteTodo: deleting a deleted record succeeds *)
Registry_deleteTodoAgain(l, sender, todoId) ==
    IF ~RecordExists(l, todoId) THEN Reverted(l, "Todo does not exist")
    ELSE IF OwnerCheck(l, sender, todoId) # "" THEN Reverted(l, OwnerCheck(l, sender, todoId))
    ELSE Mined([l EXCEPT ![todoId].isDeleted = TRUE])

Registry_deleteTodo(l, sender, todoId) ==
    IF ~RecordExists(l, todoId) THEN Reverted(l, "Todo does not exist")
    ELSE IF OwnerCheck(l, sender, todoId) # "" THEN Reverted(l, OwnerCheck(l, sender, todoId))
    ELSE IF l[todoId].isDeleted THEN Reverted(l, "Todo is already deleted")
    ELSE Mined([l EXCEPT ![todoId].isDeleted = TRUE])

(* mutant of Registry_restoreTodo: the restored record is stamped anew *)
Registry_restoreTodoRestamp(l, sender, todoId) ==
    IF ~RecordExists(l, todoId) THEN Reverted(l, "Todo does not exist")
    ELSE IF OwnerCheck(l, sender, todoId) # "" THEN Reverted(l, OwnerCheck(l, sender, todoId))
    ELSE IF ~l[todoId].isDeleted THEN Reverted(l, "Todo is not deleted")
    ELSE Mined([l EXCEPT ![todoId].isDeleted = FALSE, ![todoId].timestamp = @ + 1])

Registry_restoreTodo(l, sender, todoId) ==
    IF ~RecordExists(l, todoId) THEN Reverted(l, "Todo does not exist")
    ELSE IF OwnerCheck(l, sender, todoId) # "" THEN Reverted(l, OwnerCheck(l, sender, todoId))
    ELSE IF ~l[todoId].isDeleted THEN Reverted(l, "Todo is not deleted")
    ELSE Mined([l EXCEPT ![todoId].isDeleted = FALSE])

(* mutant of Registry_verifyTodo: a deleted record never verifies *)
Registry_verifyTodoLive(l, todoId, expectedHash) ==
    IF ~RecordExists(l, todoId) THEN [ok |-> FALSE, value |-> FALSE]
    ELSE [ok |-> TRUE, value |-> (l[todoId].todoHash = expectedHash /\ ~l[todoId].isDeleted)]

(* mutant of Registry_getTodo: without the todoExists modifier the mapping *)
(* returns the zero record                                                 *)
Registry_getTodoUnchecked(l, todoId) ==
    [ok |-> TRUE, value |-> IF todoId \in DOMAIN l THEN l[todoId] ELSE NoRecord]

(* view calls: ok = FALSE is the revert "Todo does not exist" *)
Registry_verifyTodo(l, todoId, expectedHash) ==
    IF ~RecordExists(l, todoId) THEN [ok |-> FALSE, value |-> FALSE]
    ELSE [ok |-> TRUE, value |-> (l[todoId].todoHash = expectedHash)]

Registry_getTodo(l, todoId) ==
    IF ~RecordExists(l, todoId) THEN [ok |-> FALSE, value |-> NoRecord]
    ELSE [ok |-> TRUE, value |-> l[todoId]]

(* view call without modifier: never reverts *)
Registry_todoExistsByID(l, todoId) == todoId \in DOMAIN l /\ l[todoId].timestamp > 0

(***************************************************************************)
(* Todo documents (todo.model.ts)                                          *)
(***************************************************************************)
NoTodo ==
    [exists |-> FALSE, userId |-> "", title |-> "", description |-> Undefined,
     isCompleted |-> FALSE, completedAt |-> NoDate, priority |-> MEDIUM,
     dueDate |-> NoDate, createdAt |-> NoDate, updatedAt |-> NoDate,
     isDeleted |-> FALSE, deletedAt |-> NoDate, deletedBy |-> Undefined,
     blockchainHash |-> Undefined, blockchainTxHash |-> 0,
     blockchainSyncStatus |-> PENDING, blockchainSyncError |-> Undefined,
     blockchainSyncedAt |-> NoDate, syncRetryCount |-> 0]

(* the seven fields generateTodoHash reads *)
SemanticFields ==
    {"userId", "title", "description", "isCompleted", "priority", "dueDate", "createdAt"}

Semantic(todo) == [f \in SemanticFields |-> todo[f]]

(* { $set: updateData } applied to one document *)
ApplySet(doc, updateData) ==
    [f \in DOMAIN doc |-> IF f \in DOMAIN updateData THEN updateData[f] ELSE doc[f]]

(***************************************************************************)
(* User documents (user.model.ts): refreshTokens is the array of stored    *)
(* refresh token entries                                                   *)
(***************************************************************************)
NoUser == [exists |-> FALSE, refreshTokens |-> <<>>]

(***************************************************************************)
(* TodoRepository                                                          *)
(***************************************************************************)
(* mutant of findById: the owner is not part of the filter *)
findByIdAnyUser(store, todoId, userId) ==
    IF store[todoId].exists /\ ~store[todoId].isDeleted
    THEN store[todoId] ELSE NoTodo

(* findOne({ _id, userId, isDeleted: false }) *)
findById(store, todoId, userId) ==
    IF store[todoId].exists /\ store[todoId].userId = userId /\ ~store[todoId].isDeleted
    THEN store[todoId] ELSE NoTodo

(* findAll without filters, on one page: the ids of the user's todos that   *)
(* are not deleted                                                         *)
findAll(store, userId) ==
    {id \in DOMAIN store :
        store[id].exists /\ store[id].userId = userId /\ ~store[id].isDeleted}

(* Todo.create: schema defaults, timestamps: true *)
Repo_create(todoData, now) ==
    ApplySet(ApplySet(NoTodo, todoData),
             [exists |-> TRUE, createdAt |-> now, updatedAt |-> now])

(* mutant of Repo_update: the update document replaces the stored one      *)
(* instead of being applied with $set                                      *)
Repo_updateReplace(store, todoId, userId, updateData, now) ==
    IF findById(store, todoId, userId).exists
    THEN LET doc == ApplySet([NoTodo EXCEPT !.exists = TRUE, !.userId = userId],
                             updateData @@ [updatedAt |-> now])
         IN  [store |-> [store EXCEPT ![todoId] = doc], doc |-> doc]
    ELSE [store |-> store, doc |-> NoTodo]

(* findOneAndUpdate({ _id, userId, isDeleted: false }, { $set }, { new: true }) *)
Repo_update(store, todoId, userId, updateData, now) ==
    IF findById(store, todoId, userId).exists
    THEN LET doc == ApplySet(store[todoId], updateData @@ [updatedAt |-> now])
         IN  [store |-> [store EXCEPT ![todoId] = doc], doc |-> doc]
    ELSE [store |-> store, doc |-> NoTodo]

softDelete(store, todoId, userId, now) ==
    Repo_update(store, todoId, userId, [isDeleted |-> TRUE, deletedAt |-> now], now)

(* mutant of restore: the filter does not ask for isDeleted: true *)
restoreAnyState(store, todoId, userId, now) ==
    IF store[todoId].exists /\ store[todoId].userId = userId
    THEN LET doc == ApplySet(store[todoId],
                             [isDeleted |-> FALSE, deletedAt |-> NoDate, updatedAt |-> now])
         IN  [store |-> [store EXCEPT ![todoId] = doc], doc |-> doc]
    ELSE [store |-> store, doc |-> NoTodo]

(* findOneAndUpdate({ _id, userId, isDeleted: true }, { $set, $unset }) *)
restore(store, todoId, userId, now) ==
    IF store[todoId].exists /\ store[todoId].userId = userId /\ store[todoId].isDeleted
    THEN LET doc == ApplySet(store[todoId],
                             [isDeleted |-> FALSE, deletedAt |-> NoDate, updatedAt |-> now])
         IN  [store |-> [store EXCEPT ![todoId] = doc], doc |-> doc]
    ELSE [store |-> store, doc |-> NoTodo]

(* toggleComplete, second half: the document read by findById is flipped   *)
(* in memory and saved; save() writes the modified paths by _id            *)
ToggledDoc(readDoc, now) ==
    ApplySet(readDoc, [isCompleted |-> ~readDoc.isCompleted,
                       completedAt |-> IF ~readDoc.isCompleted THEN now ELSE NoDate,
                       updatedAt |-> now])

Repo_save(store, memDoc, todoId) ==
    [store EXCEPT ![todoId] =
        ApplySet(@, [isCompleted |-> memDoc.isCompleted,
                     completedAt |-> memDoc.completedAt,
                     updatedAt |-> memDoc.updatedAt])]

(* getFailedSyncs: syncRetryCount: { $lt: 10 } *)
MaxRetries == 10

(* values of an update document as Mongoose sees them before casting *)
NumberValue(n) == [type |-> "number", n |-> n]
ObjectValue(op, n) == [type |-> "object", op |-> op, n |-> n]

(* SchemaNumber cast: anything but a number is a CastError *)
castNumber(v) ==
    IF v.type = "number" THEN [ok |-> TRUE, n |-> v.n] ELSE [ok |-> FALSE, n |-> 0]

(* updateBlockchainStatus: builds updateData and hands it to               *)
(* findByIdAndUpdate, which wraps it in $set and casts every value to its  *)
(* schema type; a failed cast rejects the whole update                     *)
StatusUpdateData(status, txHash, error, now) ==
    [blockchainSyncStatus |-> status]
    @@ (IF txHash # 0
        THEN [blockchainTxHash |-> txHash, blockchainSyncedAt |-> now]
        ELSE <<>>)
    @@ (IF error # Undefined /\ error # ""
        THEN [blockchainSyncError |-> error, syncRetryCount |-> ObjectValue("$inc", 1)]
        ELSE <<>>)
    @@ (IF status = SYNCED THEN [blockchainSyncedAt |-> now] ELSE <<>>)

updateBlockchainStatus(store, todoId, status, txHash, error, now) ==
    LET updateData == StatusUpdateData(status, txHash, error, now)
        hasCount == "syncRetryCount" \in DOMAIN updateData
        cast == IF hasCount THEN castNumber(updateData.syncRetryCount)
                ELSE [ok |-> TRUE, n |-> 0]
        casted == IF hasCount
                  THEN [f \in DOMAIN updateData |->
                            IF f = "syncRetryCount" THEN cast.n ELSE updateData[f]]
                  ELSE updateData
    IN  IF ~cast.ok THEN [threw |-> TRUE, store |-> store]
        ELSE IF ~store[todoId].exists THEN [threw |-> FALSE, store |-> store]
        ELSE [threw |-> FALSE,
              store |-> [store EXCEPT ![todoId] = ApplySet(@, casted @@ [updatedAt |-> now])]]

(***************************************************************************)
(* Requests and background work                                            *)
(***************************************************************************)
(* request bodies accepted by createTodoSchema / updateTodoSchema *)
CreateDTOs == {[title |-> "a", priority |-> MEDIUM]}
UpdateDTOs == {[title |-> "a"], [title |-> "b"]}

now == clock

(* what a caller gets back: caller is the userId the request was made for, *)
(* ledgerCalls the BlockchainService calls the handler awaited             *)
NoResp == [tid |-> 0, op |-> "none", caller |-> "", todoId |-> 0, status |-> "none",
           todo |-> NoTodo, isValid |-> FALSE, ledgerCalls |-> <<>>]

(* ApiError thrown to the caller of handler op *)
ErrorResponse(op, userId, todoId, status) ==
    [NoResp EXCEPT !.op = op, !.caller = userId, !.todoId = todoId, !.status = status]

Response(tid, op, userId, todoId, status, todo) ==
    [tid |-> tid, op |-> op, caller |-> userId, todoId |-> todoId, status |-> status,
     todo |-> todo, isValid |-> FALSE, ledgerCalls |-> <<>>]

(* a detached promise: the ledger transaction has been sent (pc = "tx"),   *)
(* or it has come back and the envelope is still to be written ("write");  *)
(* the receipt hash of the one transaction a task sends is its tid.        *)
(* snapshot is the in-memory document the handler passed on, of which      *)
(* hash is computed when the promise starts; via, committedHash,           *)
(* prevStatus and prevHash are history: the handler that detached it, the  *)
(* hash of the document as committed, and the envelope before the commit   *)
(* mutant of Task: the handler awaits the ledger before it answers *)
TaskAwaited(tid, op, via, todoId, snapshot, committed, prev) ==
    [tid |-> tid, op |-> op, via |-> via, todoId |-> todoId,
     userId |-> snapshot.userId,
     hash |-> IF op \in {"create", "update"} THEN generateTodoHash(snapshot) ELSE ZeroHash,
     pc |-> "write", ok |-> TRUE, error |-> "",
     committedHash |-> generateTodoHash(committed),
     prevStatus |-> prev.blockchainSyncStatus, prevHash |-> prev.blockchainHash]

Task(tid, op, via, todoId, snapshot, committed, prev) ==
    [tid |-> tid, op |-> op, via |-> via, todoId |-> todoId,
     userId |-> snapshot.userId,
     hash |-> IF op \in {"create", "update"} THEN generateTodoHash(snapshot) ELSE ZeroHash,
     pc |-> "tx", ok |-> FALSE, error |-> "",
     committedHash |-> generateTodoHash(committed),
     prevStatus |-> prev.blockchainSyncStatus, prevHash |-> prev.blockchainHash]

FreeIds == {id \in TodoIds : ~todos[id].exists}

Reserved == nreq + Cardinality(toggling)

HistAfter(newStore, createSynced) ==
    [id \in TodoIds |->
        [hist[id] EXCEPT
            !.changed = @ \/ (todos[id].exists
                              /\ Semantic(newStore[id]) # Semantic(todos[id])),
            !.createSynced = @ \/ id \in createSynced]]

Init ==
    /\ todos = [id \in TodoIds |-> NoTodo]
    /\ ledger = [id \in TodoIds |-> NoRecord]
    /\ tasks = {}
    /\ toggling = {}
    /\ resp = NoResp
    /\ nreq = 0
    /\ hist = [id \in TodoIds |->
                    [changed |-> FALSE, createSynced |-> FALSE, lost |-> FALSE,
                     tampered |-> FALSE]]
    /\ users = [u \in Users |-> NoUser]
    /\ verifying = {}

(***************************************************************************)
(* TodoService: the request handlers                                       *)
(***************************************************************************)
NewTodoData(userId, data) ==
    [userId |-> userId, title |-> data.title,
     priority |-> IF "priority" \in DOMAIN data THEN data.priority ELSE MEDIUM,
     isCompleted |-> FALSE, blockchainSyncStatus |-> PENDING]
    @@ (IF "description" \in DOMAIN data THEN [description |-> data.description] ELSE <<>>)
    @@ (IF "dueDate" \in DOMAIN data THEN [dueDate |-> data.dueDate] ELSE <<>>)

createTodo(userId, data) ==
    /\ UNCHANGED <<users, verifying>>
    /\ /\ Reserved < MaxRequests
       /\ FreeIds # {}
       /\ LET todoId == CHOOSE id \in FreeIds : \A other \in FreeIds : id <= other
              todo == Repo_create(NewTodoData(userId, data), now)
          IN  /\ todos' = [todos EXCEPT ![todoId] = todo]
              /\ tasks' = tasks \cup {Task(now, "create", "createTodo", todoId, todo, todo, NoTodo)}
              /\ resp' = Response(now, "createTodo", userId, todoId, "ok", todo)
              /\ hist' = HistAfter(todos', {})
       /\ nreq' = nreq + 1
       /\ UNCHANGED <<ledger, toggling>>

(* { ...data, blockchainSyncStatus: PENDING } *)
UpdateTodoData(data) == [blockchainSyncStatus |-> PENDING] @@ data

updateTodo(todoId, userId, data) ==
    /\ UNCHANGED <<users, verifying>>
    /\ LET r == Repo_update(todos, todoId, userId, UpdateTodoData(data), now)
       IN  IF r.doc.exists
           THEN /\ Reserved < MaxRequests
                /\ todos' = r.store
                /\ tasks' = tasks \cup {Task(now, "update", "updateTodo", todoId, r.doc, r.doc,
                                             todos[todoId])}
                /\ resp' = Response(now, "updateTodo", userId, todoId, "ok", r.doc)
                /\ hist' = HistAfter(todos', {})
                /\ nreq' = nreq + 1
                /\ UNCHANGED <<ledger, toggling>>
           ELSE /\ resp' = ErrorResponse("updateTodo", userId, todoId, "notFound")
                /\ UNCHANGED <<todos, ledger, tasks, toggling, nreq, hist>>

(* toggleComplete up to the await of findById inside the repository *)
toggleCompleteRead(todoId, userId) ==
    /\ UNCHANGED <<users, verifying>>
    /\ LET todo == findById(todos, todoId, userId)
       IN  IF todo.exists
           THEN /\ Reserved < MaxRequests
                /\ Cardinality(toggling) < MaxToggling
                /\ toggling' = toggling \cup
                       {[rid |-> Reserved + 1, todoId |-> todoId, userId |-> userId,
                         doc |-> todo]}
                /\ UNCHANGED <<todos, ledger, tasks, resp, nreq, hist>>
           ELSE /\ resp' = ErrorResponse("toggleComplete", userId, todoId, "notFound")
                /\ UNCHANGED <<todos, ledger, tasks, toggling, nreq, hist>>

(* toggleComplete from todo.save() to the return *)
toggleCompleteSave(r) ==
    /\ UNCHANGED <<users, verifying>>
    /\ LET todo == ToggledDoc(r.doc, now)
       IN  /\ todos' = Repo_save(todos, todo, r.todoId)
           /\ toggling' = toggling \ {r}
           /\ tasks' = tasks \cup {Task(now, "update", "toggleComplete", r.todoId, todo,
                                        todos'[r.todoId], todos[r.todoId])}
           /\ resp' = Response(now, "toggleComplete", r.userId, r.todoId, "ok", todo)
           /\ hist' = HistAfter(todos', {})
           /\ nreq' = nreq + 1
           /\ UNCHANGED ledger

deleteTodo(todoId, userId) ==
    /\ UNCHANGED <<users, verifying>>
    /\ LET r == softDelete(todos, todoId, userId, now)
       IN  IF r.doc.exists
           THEN /\ Reserved < MaxRequests
                /\ todos' = r.store
                /\ tasks' = tasks \cup {Task(now, "delete", "deleteTodo", todoId, r.doc, r.doc,
                                             todos[todoId])}
                /\ resp' = Response(now, "deleteTodo", userId, todoId, "ok", NoTodo)
                /\ hist' = HistAfter(todos', {})
                /\ nreq' = nreq + 1
                /\ UNCHANGED <<ledger, toggling>>
           ELSE /\ resp' = ErrorResponse("deleteTodo", userId, todoId, "notFound")
                /\ UNCHANGED <<todos, ledger, tasks, toggling, nreq, hist>>

restoreTodo(todoId, userId) ==
    /\ UNCHANGED <<users, verifying>>
    /\ LET r == restore(todos, todoId, userId, now)
       IN  IF r.doc.exists
           THEN /\ Reserved < MaxRequests
                /\ todos' = r.store
                /\ tasks' = tasks \cup {Task(now, "restore", "restoreTodo", todoId, r.doc, r.doc,
                                             todos[todoId])}
                /\ resp' = Response(now, "restoreTodo", userId, todoId, "ok", r.doc)
                /\ hist' = HistAfter(todos', {})
                /\ nreq' = nreq + 1
                /\ UNCHANGED <<ledger, toggling>>
           ELSE /\ resp' = ErrorResponse("restoreTodo", userId, todoId, "notFound")
                /\ UNCHANGED <<todos, ledger, tasks, toggling, nreq, hist>>

getTodoById(todoId, userId) ==
    /\ UNCHANGED <<users, verifying>>
    /\ LET todo == findById(todos, todoId, userId)
       IN  /\ resp' = IF todo.exists THEN Response(0, "getTodoById", userId, todoId, "ok", todo)
                      ELSE ErrorResponse("getTodoById", userId, todoId, "notFound")
           /\ UNCHANGED <<todos, ledger, tasks, toggling, nreq, hist>>

(* mutant of VerifyResult: the syncStatus is not looked at *)
VerifyResultAnyStatus(store, l, todoId, userId) ==
    LET todo == findById(store, todoId, userId)
        currentHash == generateTodoHash(todo)
    IN  IF ~todo.exists THEN ErrorResponse("verifyTodo", userId, todoId, "notFound")
        ELSE IF ~Registry_getTodo(l, todoId).ok
            THEN [ErrorResponse("verifyTodo", userId, todoId, "error") EXCEPT
                    !.ledgerCalls = <<"getTodo">>]
        ELSE [Response(0, "verifyTodo", userId, todoId, "ok", todo) EXCEPT
                !.isValid = Registry_verifyTodo(l, todoId, currentHash).value,
                !.ledgerCalls = <<"getTodo", "verifyTodo">>]

(* mutant of VerifyResult: the hash cached in the envelope is sent to the   *)
(* ledger in place of a fresh one                                          *)
VerifyResultCached(store, l, todoId, userId) ==
    LET todo == findById(store, todoId, userId)
    IN  IF ~todo.exists THEN ErrorResponse("verifyTodo", userId, todoId, "notFound")
        ELSE IF todo.blockchainSyncStatus # SYNCED
            THEN ErrorResponse("verifyTodo", userId, todoId, "badRequest")
        ELSE IF ~Registry_getTodo(l, todoId).ok
            THEN [ErrorResponse("verifyTodo", userId, todoId, "error") EXCEPT
                    !.ledgerCalls = <<"getTodo">>]
        ELSE [Response(0, "verifyTodo", userId, todoId, "ok", todo) EXCEPT
                !.isValid = Registry_verifyTodo(l, todoId, todo.blockchainHash).value,
                !.ledgerCalls = <<"getTodo", "verifyTodo">>]

(* what verifyTodo hands back in the given store and ledger *)
VerifyResult(store, l, todoId, userId) ==
    LET todo == findById(store, todoId, userId)
        currentHash == generateTodoHash(todo)
    IN  IF ~todo.exists THEN ErrorResponse("verifyTodo", userId, todoId, "notFound")
        ELSE IF todo.blockchainSyncStatus # SYNCED
            THEN ErrorResponse("verifyTodo", userId, todoId, "badRequest")
        ELSE IF ~Registry_getTodo(l, todoId).ok
            THEN [ErrorResponse("verifyTodo", userId, todoId, "error") EXCEPT
                    !.ledgerCalls = <<"getTodo">>]
        ELSE [Response(0, "verifyTodo", userId, todoId, "ok", todo) EXCEPT
                !.isValid = Registry_verifyTodo(l, todoId, currentHash).value,
                !.ledgerCalls = <<"getTodo", "verifyTodo">>]

verifyTodo(todoId, userId) ==
    /\ UNCHANGED <<users, verifying>>
    /\ /\ resp' = VerifyResult(todos, ledger, todoId, userId)
       /\ UNCHANGED <<todos, ledger, tasks, toggling, nreq, hist>>

(***************************************************************************)
(* BlockchainService and the detached halves of the TodoService            *)
(***************************************************************************)
(* the contract call a task has sent, executed against ledger l *)
ContractCall(t, l, blockTime) ==
    CASE t.op = "create" -> Registry_createTodo(l, Wallet, blockTime, t.todoId, t.hash)
      [] t.op = "update" -> Registry_updateTodo(l, Wallet, t.todoId, t.hash)
      [] t.op = "delete" -> Registry_deleteTodo(l, Wallet, t.todoId)
      [] t.op = "restore" -> Registry_restoreTodo(l, Wallet, t.todoId)

(* mutant of AfterCall: the outcome of the transaction is not looked at   *)
AfterCallUnchecked(t, ok, error) ==
    IF t.op \in {"create", "update"}
    THEN (tasks \ {t}) \cup {[t EXCEPT !.pc = "write", !.ok = TRUE, !.error = ""]}
    ELSE tasks \ {t}

(* deleteOnBlockchain and restoreOnBlockchain only log the outcome, so the *)
(* promise settles with the ledger call; syncToBlockchain and              *)
(* updateOnBlockchain go on to write the envelope                          *)
AfterCall(t, ok, error) ==
    IF t.op \in {"create", "update"}
    THEN (tasks \ {t}) \cup {[t EXCEPT !.pc = "write", !.ok = ok, !.error = error]}
    ELSE tasks \ {t}

(* tx.wait() returns: the transaction was mined, or it reverted. Nothing   *)
(* in the service orders the transactions of promises that run at the same *)
(* time (no queue, no nonce manager), so they are mined in any order       *)
blockchainCall(t) ==
    /\ UNCHANGED <<users, verifying>>
    /\ /\ t.pc = "tx"
       /\ LET r == ContractCall(t, ledger, now)
          IN  /\ ledger' = r.ledger
              /\ tasks' = AfterCall(t, r.ok, r.error)
       /\ UNCHANGED <<todos, toggling, resp, nreq, hist>>

(* the provider fails (network, timeout, gas) and nothing reaches the chain *)
blockchainUnavailable(t) ==
    /\ UNCHANGED <<users, verifying>>
    /\ /\ t.pc = "tx"
       /\ tasks' = AfterCall(t, FALSE, "timeout")
       /\ UNCHANGED <<todos, ledger, toggling, resp, nreq, hist>>

(* mutant of SyncedData: the success is recorded without the hash, as      *)
(* updateBlockchainStatus(SYNCED, txHash) would                            *)
SyncedDataNoHash(t, time) ==
    [blockchainTxHash |-> t.tid, blockchainSyncStatus |-> SYNCED,
     blockchainSyncedAt |-> time]

(* mutant of SyncedData: a successful sync also clears the failure count   *)
(* and the stored error                                                    *)
SyncedDataReset(t, time) ==
    [blockchainHash |-> t.hash, blockchainTxHash |-> t.tid,
     blockchainSyncStatus |-> SYNCED, blockchainSyncedAt |-> time,
     syncRetryCount |-> 0, blockchainSyncError |-> Undefined]

SyncedData(t, time) ==
    [blockchainHash |-> t.hash, blockchainTxHash |-> t.tid,
     blockchainSyncStatus |-> SYNCED, blockchainSyncedAt |-> time]

(* the try block after the ledger call: todoRepository.update(...) *)
RecordSynced(store, t, time) ==
    Repo_update(store, t.todoId, t.userId, SyncedData(t, time), time)

(* mutant of RecordFailed: a failed sync is compensated by removing the    *)
(* document from the store                                                 *)
RecordFailedRollback(store, t, time) ==
    [threw |-> FALSE, store |-> [store EXCEPT ![t.todoId] = NoTodo]]

(* mutant of RecordFailed: the failure is stored with a plain update of    *)
(* the status and the error                                                *)
RecordFailedStored(store, t, time) ==
    [threw |-> FALSE,
     store |-> Repo_update(store, t.todoId, t.userId,
                           [blockchainSyncStatus |-> FAILED,
                            blockchainSyncError |-> t.error], time).store]

(* the catch block: todoRepository.updateBlockchainStatus(FAILED, error);  *)
(* when that throws, the promise rejects and the caller's .catch logs it   *)
RecordFailed(store, t, time) ==
    updateBlockchainStatus(store, t.todoId, FAILED, 0, t.error, time)

(* syncToBlockchain / updateOnBlockchain after the ledger call *)
writeEnvelope(t) ==
    /\ UNCHANGED <<users, verifying>>
    /\ /\ t.pc = "write"
       /\ IF t.ok
          THEN LET r == RecordSynced(todos, t, now)
               IN  /\ todos' = r.store
                   /\ hist' = HistAfter(todos',
                                        IF t.op = "create" /\ r.doc.exists
                                        THEN {t.todoId} ELSE {})
          ELSE /\ todos' = RecordFailed(todos, t, now).store
               /\ hist' = HistAfter(todos', {})
       /\ tasks' = tasks \ {t}
       /\ UNCHANGED <<ledger, toggling, resp, nreq>>

Next ==
    \/ \E u \in Users, data \in CreateDTOs : createTodo(u, data)
    \/ \E id \in TodoIds, u \in Users, data \in UpdateDTOs : updateTodo(id, u, data)
    \/ \E id \in TodoIds, u \in Users : toggleCompleteRead(id, u)
    \/ \E r \in toggling : toggleCompleteSave(r)
    \/ \E id \in TodoIds, u \in Users : deleteTodo(id, u)
    \/ \E id \in TodoIds, u \in Users : restoreTodo(id, u)
    \/ \E id \in TodoIds, u \in Users : getTodoById(id, u)
    \/ \E id \in TodoIds, u \in Users : verifyTodo(id, u)
    \/ \E t \in tasks : blockchainCall(t)
    \/ \E t \in tasks : blockchainUnavailable(t)
    \/ \E t \in tasks : writeEnvelope(t)

Spec == Init /\ [][Next]_vars

(***************************************************************************)
(* Properties                                                              *)
(***************************************************************************)
(* the tasks whose envelope write ends in this step *)
Written == {t \in tasks : t.pc = "write" /\ t \notin tasks'}

(* the ledger writes of a todo that have been sent and not yet come back *)
InFlight(todoId) == {t \in tasks : t.todoId = todoId /\ t.pc = "tx"}

(* C1: whenever a sync is recorded as successful, the todo is left synced  *)
(* with a blockchainHash that is set and is the hash of the todo's         *)
(* semantic fields as they stood at that sync: as committed in the store   *)
(* when the sync was started, or as they stand when it is recorded.        *)
C1_SyncedHashIsOfSyncedFields ==
    [][\A t \in Written :
            (t.ok /\ todos'[t.todoId].blockchainTxHash = t.tid)
            => /\ todos'[t.todoId].blockchainSyncStatus = SYNCED
               /\ todos'[t.todoId].blockchainHash # Undefined
               /\ \/ todos'[t.todoId].blockchainHash = generateTodoHash(todos'[t.todoId])
                  \/ todos'[t.todoId].blockchainHash = t.committedHash]_vars

(* C2: a synced todo with no background sync left has on the ledger the    *)
(* hash of its current semantic fields.                                    *)
C2_SyncedMatchesLedger ==
    \A id \in TodoIds :
        (/\ todos[id].exists
         /\ todos[id].blockchainSyncStatus = SYNCED
         /\ {t \in tasks : t.todoId = id} = {}
         /\ {r \in toggling : r.todoId = id} = {})
        => /\ ledger[id].timestamp > 0
           /\ ledger[id].todoHash = generateTodoHash(todos[id])

(* C3: at most one ledger write is in flight for a todo id at any time.    *)
C3_OneLedgerWriteInFlight ==
    \A id \in TodoIds : Cardinality(InFlight(id)) <= 1

(* the handlers that write to the store *)
Mutating == {"createTodo", "updateTodo", "toggleComplete", "deleteTodo", "restoreTodo"}

(* C4: a handler answers in the step that commits to the store: the ledger *)
(* is untouched, the sync it detached is still waiting for the ledger, and *)
(* createTodo answers with the stored todo, which is pending.              *)
C4_AnswersBeforeLedger ==
    [][(resp' # resp /\ resp'.status = "ok" /\ resp'.op \in Mutating)
        => /\ ledger' = ledger
           /\ \E t \in tasks' \ tasks : t.tid = resp'.tid /\ t.pc = "tx"
           /\ resp'.op = "createTodo"
                => /\ resp'.todo = todos'[resp'.todoId]
                   /\ resp'.todo.blockchainSyncStatus = PENDING]_vars

(* C4 witness: the answer of createTodo is out, pending, while its ledger  *)
(* write has not been confirmed and the ledger has no record.              *)
C4_Witness ==
    /\ resp.op = "createTodo"
    /\ resp.todo.blockchainSyncStatus = PENDING
    /\ \E t \in tasks : t.tid = resp.tid /\ t.pc = "tx"
    /\ ledger[resp.todoId].timestamp = 0

(* C5: every step that changes a semantic field of a todo leaves its       *)
(* syncStatus pending.                                                     *)
C5_MutationResetsToPending ==
    [][\A id \in TodoIds :
            (todos[id].exists /\ Semantic(todos'[id]) # Semantic(todos[id]))
            => todos'[id].blockchainSyncStatus = PENDING]_vars

C7_UpdateRoundTrip ==
    [][\A t \in Written :
            (/\ t.via = "updateTodo" /\ t.ok
             /\ t.prevStatus = SYNCED /\ t.prevHash # t.committedHash)
            => LET todo == todos'[t.todoId]
                   v == VerifyResult(todos', ledger', t.todoId, todo.userId)
               IN  /\ todo.blockchainSyncStatus = SYNCED
                   /\ todo.blockchainHash = generateTodoHash(todo)
                   /\ todo.blockchainHash # t.prevHash
                   /\ v.status = "ok" /\ v.isValid]_vars

(* C8: recording the failure of a create or update sync leaves the todo    *)
(* failed, with the error stored and syncRetryCount one higher.            *)
C8_FailureRecorded ==
    [][\A t \in Written :
            ~t.ok
            => /\ todos'[t.todoId].blockchainSyncStatus = FAILED
               /\ todos'[t.todoId].blockchainSyncError = t.error
               /\ todos'[t.todoId].syncRetryCount = todos[t.todoId].syncRetryCount + 1]_vars

(* C9: a delete or restore sync whose ledger call fails leaves the todo    *)
(* failed with the error stored.                                           *)
C9_DeleteRestoreFailureRecorded ==
    [][\A t \in tasks :
            (/\ t.op \in {"delete", "restore"} /\ t.pc = "tx" /\ t \notin tasks'
             /\ ledger' = ledger)
            => /\ todos'[t.todoId].blockchainSyncStatus = FAILED
               /\ todos'[t.todoId].blockchainSyncError # Undefined]_vars

(* C10: a step of the background work, whether its ledger call succeeded   *)
(* or failed, changes neither the answer a caller got nor what the         *)
(* handlers committed: the documents that exist, their semantic fields     *)
(* and their deletion flags.                                               *)
C10_LedgerOutcomeNeverReachesCaller ==
    [][(nreq' = nreq /\ tasks' # tasks)
        => /\ resp' = resp
           /\ \A id \in TodoIds :
                /\ todos'[id].exists = todos[id].exists
                /\ Semantic(todos'[id]) = Semantic(todos[id])
                /\ todos'[id].isDeleted = todos[id].isDeleted]_vars

(* C10 witness: deleteTodo has answered, the ledger delete has failed (the *)
(* record is still not deleted and no sync is left), the todo is deleted.  *)
C10_Witness ==
    /\ resp.op = "deleteTodo" /\ resp.status = "ok"
    /\ todos[resp.todoId].isDeleted
    /\ ledger[resp.todoId].timestamp > 0 /\ ~ledger[resp.todoId].isDeleted
    /\ tasks = {}

(* the tasks whose transaction reaches the ledger in this step, mined or   *)
(* reverted                                                                *)
Executed ==
    {t \in tasks : /\ t.pc = "tx" /\ t \notin tasks'
                   /\ \E w \in tasks' : w.tid = t.tid /\ w.pc = "write" /\ w.error # "timeout"}

(* C11: when the sync detached by updateTodo or toggleComplete reaches the *)
(* ledger for a todo that was never synced (no ledger record, no           *)
(* blockchainHash in the envelope, its create sync over), the ledger       *)
(* accepts it as a create: the record exists afterwards with the hash of   *)
(* the sync.                                                               *)
C11_NeverSyncedFallsBackToCreate ==
    [][\A t \in Executed :
            (/\ t.via \in {"updateTodo", "toggleComplete"}
             /\ ~RecordExists(ledger, t.todoId)
             /\ todos[t.todoId].blockchainHash = Undefined
             /\ {c \in tasks : c.todoId = t.todoId /\ c.op = "create"} = {})
            => /\ RecordExists(ledger', t.todoId)
               /\ ledger'[t.todoId].todoHash = t.hash]_vars

(***************************************************************************)
(* Fairness: a transaction that was sent comes back, and a promise whose   *)
(* ledger call has come back runs on to its envelope write. Requests are   *)
(* under no obligation to arrive. The repository holds no periodic job:    *)
(* getFailedSyncs has no caller.                                           *)
(***************************************************************************)
FairSpec ==
    /\ Spec
    /\ WF_vars(\E t \in tasks : blockchainCall(t))
    /\ WF_vars(\E t \in tasks : writeEnvelope(t))

(* C12: a todo whose create or update sync failed while its syncRetryCount *)
(* is below the maximum is eventually synced.                              *)
C12_FailedSyncEventuallySynced ==
    \A id \in TodoIds :
        (\E t \in tasks : /\ t.todoId = id /\ t.pc = "write" /\ ~t.ok
                          /\ todos[id].syncRetryCount < MaxRetries)
        ~> (todos[id].blockchainSyncStatus = SYNCED)

(***************************************************************************)
(* Process termination: the detached promises and the requests in          *)
(* progress live in the memory of the process only, so they end with it;   *)
(* the store and the ledger persist and a restarted process serves new     *)
(* requests. A transaction mined after the process is gone leaves the same *)
(* state as one mined just before (blockchainCall, then terminate).        *)
(***************************************************************************)
terminate ==
    /\ UNCHANGED <<users, verifying>>
    /\ /\ tasks # {} \/ toggling # {}
       /\ tasks' = {}
       /\ toggling' = {}
       /\ hist' = [id \in TodoIds |->
                       [hist[id] EXCEPT !.lost = @ \/ \E t \in tasks : t.todoId = id]]
       /\ UNCHANGED <<todos, ledger, resp, nreq>>

NextOrTerminate == Next \/ terminate

TerminateFairSpec ==
    /\ Init /\ [][NextOrTerminate]_vars
    /\ WF_vars(\E t \in tasks : blockchainCall(t))
    /\ WF_vars(\E t \in tasks : writeEnvelope(t))

(* C13: a todo that is pending after the process ended with its sync under *)
(* way does not stay pending with no sync attempt forever: eventually a    *)
(* sync of it is started again or it is no longer pending.                 *)
C13_LostSyncIsRetried ==
    \A id \in TodoIds :
        (hist[id].lost /\ todos[id].blockchainSyncStatus = PENDING)
        ~> (\/ \E t \in tasks : t.todoId = id
            \/ todos[id].blockchainSyncStatus # PENDING)

(***************************************************************************)
(* TodoRepository.getFailedSyncs, which no code of the service calls: it   *)
(* is applied here to stores drawn from a bounded set of documents.        *)
(***************************************************************************)
MaxListed == 3

ListedIds == 1..MaxListed

(* mutant of FailedSyncFilter: $lte in place of $lt *)
FailedSyncFilterLte(doc) ==
    /\ doc.exists
    /\ doc.blockchainSyncStatus = FAILED
    /\ doc.syncRetryCount <= MaxRetries
    /\ ~doc.isDeleted

(* the filter of the find *)
FailedSyncFilter(doc) ==
    /\ doc.exists
    /\ doc.blockchainSyncStatus = FAILED
    /\ doc.syncRetryCount < MaxRetries
    /\ ~doc.isDeleted

(* .sort({ updatedAt: 1 }).limit(limit): the first limit matches in an     *)
(* ascending order of updatedAt; documents with equal updatedAt come in    *)
(* any order. The results are sequences of ids.                            *)
getFailedSyncs(store, limit) ==
    LET matching == {id \in DOMAIN store : FailedSyncFilter(store[id])}
        n == IF Cardinality(matching) < limit THEN Cardinality(matching) ELSE limit
    IN  {q \in [1..n -> matching] :
            /\ \A i, j \in 1..n : i < j =>
                    /\ q[i] # q[j]
                    /\ store[q[i]].updatedAt <= store[q[j]].updatedAt
            /\ \A id \in matching : \A i \in 1..n :
                    (\A j \in 1..n : q[j] # id)
                    => store[q[i]].updatedAt <= store[id].updatedAt}

ListedDocs ==
    {[NoTodo EXCEPT !.exists = TRUE, !.userId = "u1", !.title = "a", !.createdAt = 1,
                    !.blockchainSyncStatus = d.status, !.syncRetryCount = d.count,
                    !.updatedAt = d.updatedAt, !.isDeleted = d.isDeleted] :
        d \in [status : {SYNCED, FAILED}, count : {MaxRetries - 1, MaxRetries},
               updatedAt : {1, 2}, isDeleted : BOOLEAN]}

QueryInit ==
    /\ todos \in [ListedIds -> ListedDocs]
    /\ ledger = [id \in ListedIds |-> NoRecord]
    /\ tasks = {}
    /\ toggling = {}
    /\ resp = NoResp
    /\ nreq = 0
    /\ hist = [id \in ListedIds |->
                    [changed |-> FALSE, createSynced |-> FALSE, lost |-> FALSE,
                     tampered |-> FALSE]]
    /\ users = [u \in Users |-> NoUser]
    /\ verifying = {}

listFailedSyncs(limit) ==
    /\ UNCHANGED <<users, verifying>>
    /\ /\ \E q \in getFailedSyncs(todos, limit) :
               resp' = [op |-> "getFailedSyncs", limit |-> limit, result |-> q]
       /\ UNCHANGED <<todos, ledger, tasks, toggling, nreq, hist>>

QueryNext == \E limit \in ListedIds : listFailedSyncs(limit)

QuerySpec == QueryInit /\ [][QueryNext]_vars

(* C14: what getFailedSyncs(limit) returns holds at most limit todos, each *)
(* of them failed with syncRetryCount below the maximum, in ascending      *)
(* order of updatedAt; a todo at or over the maximum is not in it although *)
(* it is failed; and a failed, undeleted todo below the maximum is left    *)
(* out only when limit todos no younger than it are returned.              *)
C14_FailedSyncsSelection ==
    resp.op = "getFailedSyncs"
    => LET q == resp.result
           returned == {q[i] : i \in 1..Len(q)}
       IN  /\ Len(q) <= resp.limit
           /\ \A i \in 1..Len(q) :
                /\ todos[q[i]].blockchainSyncStatus = FAILED
                /\ todos[q[i]].syncRetryCount < MaxRetries
           /\ \A i, j \in 1..Len(q) :
                i < j => q[i] # q[j] /\ todos[q[i]].updatedAt <= todos[q[j]].updatedAt
           /\ \A id \in ListedIds :
                (todos[id].blockchainSyncStatus = FAILED
                 /\ todos[id].syncRetryCount >= MaxRetries) => id \notin returned
           /\ \A id \in ListedIds \ returned :
                (/\ todos[id].blockchainSyncStatus = FAILED
                 /\ todos[id].syncRetryCount < MaxRetries
                 /\ ~todos[id].isDeleted)
                => /\ Len(q) = resp.limit
                   /\ \A i \in 1..Len(q) : todos[q[i]].updatedAt <= todos[id].updatedAt

(* C14 witness: a query cut off by its limit returned two todos, the       *)
(* older first, while a failed todo at the maximum was passed over.        *)
C14_Witness ==
    /\ resp.op = "getFailedSyncs"
    /\ resp.limit = 2 /\ Len(resp.result) = 2
    /\ todos[resp.result[1]].updatedAt < todos[resp.result[2]].updatedAt
    /\ \E id \in ListedIds :
            /\ todos[id].blockchainSyncStatus = FAILED /\ ~todos[id].isDeleted
            /\ todos[id].syncRetryCount = MaxRetries
            /\ todos[id].updatedAt <= todos[resp.result[1]].updatedAt

(* C15: a step that changes the stored syncStatus of a todo takes it from  *)
(* pending to synced, pending to failed, failed to pending, failed to      *)
(* synced or synced to pending; out of synced it goes only to pending and  *)
(* only in the step in which updateTodo or toggleComplete answers.         *)
C15_SyncStatusTransitions ==
    [][\A id \in TodoIds :
            (/\ todos[id].exists /\ todos'[id].exists
             /\ todos'[id].blockchainSyncStatus # todos[id].blockchainSyncStatus)
            => /\ <<todos[id].blockchainSyncStatus, todos'[id].blockchainSyncStatus>>
                    \in {<<PENDING, SYNCED>>, <<PENDING, FAILED>>, <<FAILED, PENDING>>,
                         <<FAILED, SYNCED>>, <<SYNCED, PENDING>>}
               /\ todos[id].blockchainSyncStatus = SYNCED
                    => /\ resp'.op \in {"updateTodo", "toggleComplete"}
                       /\ resp'.status = "ok" /\ resp'.todoId = id
                       /\ nreq' = nreq + 1]_vars

(* C15 witness: a synced todo has been taken back to pending by an         *)
(* updateTodo whose sync is still under way.                               *)
C15_Witness ==
    \E t \in tasks :
        /\ t.via = "updateTodo" /\ t.prevStatus = SYNCED
        /\ todos[t.todoId].blockchainSyncStatus = PENDING

(* C16: verifyTodo answers NotFound for a todo that does not exist or is   *)
(* not the caller's, and bad request for the caller's todo whose           *)
(* syncStatus is pending or failed; in both cases it has called the ledger *)
(* not at all and the step changes nothing but the answer.                 *)
C16_VerifyPreconditions ==
    [][(resp' # resp /\ resp'.op = "verifyTodo")
        => LET id == resp'.todoId
               u == resp'.caller
               doc == todos[id]
           IN  /\ (~doc.exists \/ doc.userId # u)
                    => resp'.status = "notFound" /\ resp'.ledgerCalls = <<>>
               /\ (doc.exists /\ doc.userId = u /\ ~doc.isDeleted)
                    => /\ doc.blockchainSyncStatus \in {PENDING, FAILED}
                            => resp'.status = "badRequest" /\ resp'.ledgerCalls = <<>>
                       /\ \A st \in {PENDING, FAILED} :
                            LET v == VerifyResult(
                                        [todos EXCEPT ![id].blockchainSyncStatus = st],
                                        ledger, id, u)
                            IN  v.status = "badRequest" /\ v.ledgerCalls = <<>>
               /\ resp'.status \in {"notFound", "badRequest"}
                    => UNCHANGED <<todos, ledger, tasks, toggling, nreq, hist>>]_vars

(* C16 witness: verifyTodo has refused the owner's pending todo whose      *)
(* create has reached the ledger.                                          *)
C16_Witness ==
    /\ resp.op = "verifyTodo" /\ resp.status = "badRequest"
    /\ todos[resp.todoId].userId = resp.caller
    /\ todos[resp.todoId].blockchainSyncStatus = PENDING
    /\ RecordExists(ledger, resp.todoId)

(* values a cached blockchainHash can have: none, the ledger's hash, the   *)
(* hash of the current fields, a hash of nothing                           *)
CachedHashes(id) ==
    {Undefined, ledger[id].todoHash, generateTodoHash(todos[id]), "0x<>"}

(* C17: in every reachable state, replacing the blockchainHash cached in a *)
(* todo's envelope by any other value leaves the outcome and the isValid   *)
(* of verifyTodo as they are.                                              *)
C17_VerifyIgnoresCachedHash ==
    \A id \in TodoIds, u \in Users :
        \A h \in CachedHashes(id) :
            LET forged == [todos EXCEPT ![id].blockchainHash = h]
                v == VerifyResult(todos, ledger, id, u)
                w == VerifyResult(forged, ledger, id, u)
            IN  v.status = w.status /\ v.isValid = w.isValid

(* C17 witness: verifyTodo has answered isValid = FALSE for a todo whose   *)
(* cached blockchainHash is the hash on the ledger.                        *)
C17_Witness ==
    /\ resp.op = "verifyTodo" /\ resp.status = "ok" /\ ~resp.isValid
    /\ todos[resp.todoId].blockchainSyncStatus = SYNCED
    /\ todos[resp.todoId].blockchainHash = ledger[resp.todoId].todoHash
    /\ generateTodoHash(todos[resp.todoId]) # ledger[resp.todoId].todoHash

(***************************************************************************)
(* Writes to the primary store that go around the service (a database      *)
(* client): any fields of a document are set, nothing else happens. They   *)
(* are taken once per todo and while the service is at rest.               *)
(***************************************************************************)
TamperPatches ==
    {[title |-> "z"], [description |-> "z"], [isCompleted |-> TRUE], [priority |-> HIGH],
     [userId |-> "u2"], [dueDate |-> 9], [createdAt |-> 9],
     [title |-> "a", description |-> "b|c"]}

tamper(id, patch) ==
    /\ UNCHANGED <<users, verifying>>
    /\ /\ todos[id].exists
       /\ ~hist[id].tampered
       /\ tasks = {} /\ toggling = {}
       /\ Semantic(ApplySet(todos[id], patch)) # Semantic(todos[id])
       /\ todos' = [todos EXCEPT ![id] = ApplySet(@, patch)]
       /\ hist' = [HistAfter(todos', {}) EXCEPT ![id].tampered = TRUE]
       /\ UNCHANGED <<ledger, tasks, toggling, resp, nreq>>

(* the state after createTodo(u1, { title: "a|b", description: "c" }) and  *)
(* its sync, computed with the operators of the service                    *)
SyncedDTO == [title |-> "a|b", description |-> "c"]

SyncedTodo == Repo_create(NewTodoData("u1", SyncedDTO), 1)

SyncedTask == Task(1, "create", "createTodo", 1, SyncedTodo, SyncedTodo, NoTodo)

SyncedInit ==
    /\ todos = RecordSynced([id \in TodoIds |-> IF id = 1 THEN SyncedTodo ELSE NoTodo],
                            SyncedTask, 2).store
    /\ ledger = Registry_createTodo([id \in TodoIds |-> NoRecord], Wallet, 2, 1,
                                    SyncedTask.hash).ledger
    /\ tasks = {}
    /\ toggling = {}
    /\ resp = Response(1, "createTodo", "u1", 1, "ok", SyncedTodo)
    /\ nreq = 1
    /\ hist = [id \in TodoIds |->
                    [changed |-> FALSE, createSynced |-> id = 1, lost |-> FALSE,
                     tampered |-> FALSE]]
    /\ users = [u \in Users |-> NoUser]
    /\ verifying = {}

NextOrTamper == Next \/ \E id \in TodoIds, patch \in TamperPatches : tamper(id, patch)

TamperSpec == (Init \/ SyncedInit) /\ [][NextOrTamper]_vars

(* C18: when a semantic field of a visible, synced todo whose hash is on   *)
(* the ledger is changed around the service while no sync is under way,    *)
(* verifyTodo by the todo's owner answers isValid = FALSE.                 *)
C18_TamperEvidence ==
    [][\A id \in TodoIds :
            (/\ hist'[id].tampered /\ ~hist[id].tampered
             /\ ~todos[id].isDeleted
             /\ todos[id].blockchainSyncStatus = SYNCED
             /\ RecordExists(ledger, id)
             /\ ledger[id].todoHash = generateTodoHash(todos[id]))
            => LET v == VerifyResult(todos', ledger', id, todos'[id].userId)
               IN  v.status = "ok" /\ ~v.isValid]_vars

(* the handlers that address one todo of the caller *)
ById == {"getTodoById", "updateTodo", "toggleComplete", "deleteTodo", "restoreTodo",
         "verifyTodo"}

(* C19: every answer of getTodoById, updateTodo, toggleComplete,           *)
(* deleteTodo, restoreTodo or verifyTodo to a caller who is not the owner  *)
(* of the todo is NotFound, given without a ledger call in a step that     *)
(* leaves the store, the ledger and the background work unchanged.         *)
C19_CrossOwnerIsNotFound ==
    [][(/\ resp' # resp /\ resp'.op \in ById
        /\ todos[resp'.todoId].exists
        /\ todos[resp'.todoId].userId # resp'.caller)
        => /\ resp'.status = "notFound"
           /\ resp'.ledgerCalls = <<>>
           /\ UNCHANGED <<todos, ledger, tasks, toggling, nreq, hist>>]_vars

(* C19 witness: updateTodo has answered NotFound to a user for the         *)
(* visible, synced todo of another user.                                   *)
C19_Witness ==
    /\ resp.op = "updateTodo" /\ resp.status = "notFound"
    /\ todos[resp.todoId].exists /\ ~todos[resp.todoId].isDeleted
    /\ todos[resp.todoId].userId # resp.caller
    /\ todos[resp.todoId].blockchainSyncStatus = SYNCED

(* C20: deleteTodo leaves the todo flagged deleted with the deletion time  *)
(* and the deleter stored; a deleted todo is answered NotFound by          *)
(* getTodoById, updateTodo, toggleComplete, verifyTodo and deleteTodo and  *)
(* is not listed by getTodos; restoreTodo clears the deletion fields and   *)
(* makes the todo visible to its owner; restoreTodo of a todo that is not  *)
(* deleted is answered NotFound.                                           *)
C20_SoftDeleteAndRestore ==
    [][\A id \in TodoIds :
            /\ (resp' # resp /\ resp'.todoId = id /\ resp'.status = "ok"
                /\ resp'.op = "deleteTodo")
                => /\ todos'[id].isDeleted
                   /\ todos'[id].deletedAt = now
                   /\ todos'[id].deletedBy = resp'.caller
            /\ (todos[id].exists /\ todos[id].isDeleted)
                => /\ id \notin findAll(todos, todos[id].userId)
                   /\ (resp' # resp /\ resp'.todoId = id
                       /\ resp'.op \in {"getTodoById", "updateTodo", "toggleComplete",
                                        "verifyTodo", "deleteTodo"})
                        => resp'.status = "notFound"
            /\ (resp' # resp /\ resp'.todoId = id /\ resp'.status = "ok"
                /\ resp'.op = "restoreTodo")
                => /\ ~todos'[id].isDeleted
                   /\ todos'[id].deletedAt = NoDate
                   /\ todos'[id].deletedBy = Undefined
                   /\ findById(todos', id, resp'.caller).exists
                   /\ id \in findAll(todos', resp'.caller)
            /\ (todos[id].exists /\ ~todos[id].isDeleted
                /\ resp' # resp /\ resp'.todoId = id /\ resp'.op = "restoreTodo")
                => resp'.status = "notFound"]_vars

(* the sync envelope of a document, and the update time that every         *)
(* update of a document sets (timestamps: true)                            *)
EnvelopeFields ==
    {"blockchainHash", "blockchainTxHash", "blockchainSyncStatus", "blockchainSyncedAt",
     "blockchainSyncError", "syncRetryCount"}

(* C21: the step that records the outcome of a sync, success or failure,   *)
(* is one update that changes at most envelope fields and updatedAt of the *)
(* todo of the sync and nothing of any other todo: no semantic field, no   *)
(* deletion field, whatever the handlers did to the todo in the meantime.  *)
C21_OutcomeWritesEnvelopeOnly ==
    [][\A t \in Written :
            \A id \in TodoIds : \A f \in DOMAIN todos[id] :
                todos'[id][f] # todos[id][f]
                => id = t.todoId /\ f \in EnvelopeFields \cup {"updatedAt"}]_vars

(* C21 witness: the create sync has been recorded as synced on a todo      *)
(* whose title an updateTodo changed while that sync was under way; the    *)
(* new title is still there.                                               *)
C21_Witness ==
    \E id \in TodoIds :
        /\ todos[id].blockchainSyncStatus = SYNCED
        /\ todos[id].blockchainTxHash = todos[id].createdAt
        /\ todos[id].title = "b"
        /\ todos[id].blockchainHash # generateTodoHash(todos[id])

(***************************************************************************)
(* generateTodoHash on its own: two snapshots of stored documents are      *)
(* hashed, in any order and at any times.  A stored document always has    *)
(* createdAt (timestamps: true), title and userId (required), and a        *)
(* priority (default); its title and description are any strings the       *)
(* create and update schemas accept, which includes strings with '|'.      *)
(***************************************************************************)
SnapshotIds == {1, 2}
MaxCalls == 2

(* the first snapshot: a stored document that has not been synced *)
HashDocs ==
    {[NoTodo EXCEPT !.exists = TRUE, !.userId = u, !.title = ti, !.description = de,
                    !.dueDate = du, !.createdAt = cr, !.updatedAt = cr]
        : u \in Users, ti \in {"a", "a|b"}, de \in {Undefined, "c", "b|c"},
          du \in {NoDate, 5}, cr \in {1, 2}}

(* the second snapshot is the first with some fields set differently *)
HashPatches ==
    {[userId |-> "u1"], [userId |-> "u2"], [title |-> "a"], [title |-> "a|b"],
     [description |-> "c"], [description |-> "b|c"], [isCompleted |-> TRUE],
     [priority |-> HIGH], [dueDate |-> 5], [dueDate |-> 6], [createdAt |-> 1],
     [createdAt |-> 2],
     [title |-> "a", description |-> "b|c"], [title |-> "a|b", description |-> "c"],
     [updatedAt |-> 3], [completedAt |-> 3],
     [isDeleted |-> TRUE, deletedAt |-> 3],
     [blockchainSyncStatus |-> SYNCED, blockchainHash |-> "0x<>", blockchainTxHash |-> 1,
      blockchainSyncedAt |-> 3, updatedAt |-> 3],
     [blockchainSyncError |-> "timeout", syncRetryCount |-> 1]}

NoCalls == [op |-> "generateTodoHash", calls |-> <<>>]

HashInit ==
    /\ \E d \in HashDocs : \E patch \in HashPatches :
            todos = [id \in SnapshotIds |-> IF id = 1 THEN d ELSE ApplySet(d, patch)]
    /\ ledger = [id \in SnapshotIds |-> NoRecord]
    /\ tasks = {}
    /\ toggling = {}
    /\ resp = NoCalls
    /\ nreq = 0
    /\ hist = [id \in SnapshotIds |-> [changed |-> FALSE, createSynced |-> FALSE,
                                       lost |-> FALSE, tampered |-> FALSE]]
    /\ users = [u \in Users |-> NoUser]
    /\ verifying = {}

(* one call of generateTodoHash on a snapshot *)
hashCall(id) ==
    /\ UNCHANGED <<users, verifying>>
    /\ /\ Len(resp.calls) < MaxCalls
       /\ resp' = [resp EXCEPT !.calls =
                       Append(@, [todoId |-> id, time |-> now,
                                  hash |-> generateTodoHash(todos[id])])]
       /\ UNCHANGED <<todos, ledger, tasks, toggling, nreq, hist>>

(* time passes between two calls *)
tick ==
    /\ UNCHANGED <<users, verifying>>
    /\ /\ nreq < MaxRequests
       /\ nreq' = nreq + 1
       /\ UNCHANGED <<todos, ledger, tasks, toggling, resp, hist>>

HashNext ==
    \/ \E id \in SnapshotIds : hashCall(id)
    \/ tick

HashSpec == HashInit /\ [][HashNext]_vars

(* C22: two calls of generateTodoHash on snapshots that agree on the seven *)
(* hashed fields return the same digest, whatever the other fields of the  *)
(* snapshots, the order of the calls and the times of the calls.           *)
C22_HashIsPure ==
    \A i, j \in DOMAIN resp.calls :
        Semantic(todos[resp.calls[i].todoId]) = Semantic(todos[resp.calls[j].todoId])
        => resp.calls[i].hash = resp.calls[j].hash

(* C22 witness: two snapshots that agree on the seven fields and differ in *)
(* another field have been hashed at different times, the second snapshot  *)
(* first, with the same digest.                                            *)
C22_Witness ==
    /\ Len(resp.calls) = 2
    /\ resp.calls[1].todoId = 2
    /\ resp.calls[2].todoId = 1
    /\ resp.calls[1].time # resp.calls[2].time
    /\ todos[1] # todos[2]
    /\ Semantic(todos[1]) = Semantic(todos[2])
    /\ resp.calls[1].hash = resp.calls[2].hash

(* C23: two snapshots that differ in a hashed field get different digests. *)
C23_DifferentFieldsDifferentDigest ==
    \A i, j \in DOMAIN resp.calls :
        Semantic(todos[resp.calls[i].todoId]) # Semantic(todos[resp.calls[j].todoId])
        => resp.calls[i].hash # resp.calls[j].hash

(***************************************************************************)
(* TodoRegistry on its own: any address sends any transaction and makes    *)
(* any view call, with any id (the empty one too) and any hash (the zero   *)
(* one too).  Every transaction is mined in a block of its own; the block  *)
(* time is the clock.                                                      *)
(***************************************************************************)
MaxTxs == 4
RecordIds == {1, 2}
Addresses == {Wallet, "user2"}
Hashes == {ZeroHash, "0xh1", "0xh2"}

(* what the caller of the contract got back *)
NoTx == [op |-> "none", sender |-> "", todoId |-> EmptyId, hash |-> ZeroHash,
         ok |-> FALSE, error |-> "", isValid |-> FALSE, record |-> NoRecord]

TxResult(op, sender, todoId, hash, r) ==
    [NoTx EXCEPT !.op = op, !.sender = sender, !.todoId = todoId, !.hash = hash,
                 !.ok = r.ok, !.error = r.error]

(* history of an id on the ledger: the hash last written by a successful   *)
(* createTodo or updateTodo and how many there were, who created the       *)
(* record and when, and the last successful deleteTodo or restoreTodo      *)
NoLedgerHist == [written |-> ZeroHash, writes |-> 0, creator |-> "", createdAt |-> 0,
                 lastFlagOp |-> "none"]

LedgerInit ==
    /\ todos = [id \in RecordIds |-> NoTodo]
    /\ ledger = [id \in RecordIds |-> NoRecord]
    /\ tasks = {}
    /\ toggling = {}
    /\ resp = NoTx
    /\ nreq = 0
    /\ hist = [id \in RecordIds |-> NoLedgerHist]
    /\ users = [u \in Users |-> NoUser]
    /\ verifying = {}

txCreateTodo(sender, todoId, todoHash) ==
    /\ UNCHANGED <<users, verifying>>
    /\ LET r == Registry_createTodo(ledger, sender, clock, todoId, todoHash) IN
       /\ nreq < MaxTxs
       /\ ledger' = r.ledger
       /\ resp' = TxResult("createTodo", sender, todoId, todoHash, r)
       /\ nreq' = nreq + 1
       /\ hist' = IF r.ok
                  THEN [hist EXCEPT ![todoId] = [written |-> todoHash, writes |-> 1,
                                                 creator |-> sender, createdAt |-> clock,
                                                 lastFlagOp |-> "none"]]
                  ELSE hist
       /\ UNCHANGED <<todos, tasks, toggling>>

txUpdateTodo(sender, todoId, newHash) ==
    /\ UNCHANGED <<users, verifying>>
    /\ LET r == Registry_updateTodo(ledger, sender, todoId, newHash) IN
       /\ nreq < MaxTxs
       /\ ledger' = r.ledger
       /\ resp' = TxResult("updateTodo", sender, todoId, newHash, r)
       /\ nreq' = nreq + 1
       /\ hist' = IF r.ok
                  THEN [hist EXCEPT ![todoId].written = newHash, ![todoId].writes = @ + 1]
                  ELSE hist
       /\ UNCHANGED <<todos, tasks, toggling>>

txDeleteTodo(sender, todoId) ==
    /\ UNCHANGED <<users, verifying>>
    /\ LET r == Registry_deleteTodo(ledger, sender, todoId) IN
       /\ nreq < MaxTxs
       /\ ledger' = r.ledger
       /\ resp' = TxResult("deleteTodo", sender, todoId, ZeroHash, r)
       /\ nreq' = nreq + 1
       /\ hist' = IF r.ok THEN [hist EXCEPT ![todoId].lastFlagOp = "deleteTodo"] ELSE hist
       /\ UNCHANGED <<todos, tasks, toggling>>

txRestoreTodo(sender, todoId) ==
    /\ UNCHANGED <<users, verifying>>
    /\ LET r == Registry_restoreTodo(ledger, sender, todoId) IN
       /\ nreq < MaxTxs
       /\ ledger' = r.ledger
       /\ resp' = TxResult("restoreTodo", sender, todoId, ZeroHash, r)
       /\ nreq' = nreq + 1
       /\ hist' = IF r.ok THEN [hist EXCEPT ![todoId].lastFlagOp = "restoreTodo"] ELSE hist
       /\ UNCHANGED <<todos, tasks, toggling>>

(* view calls: no transaction, no block *)
callVerifyTodo(sender, todoId, expectedHash) ==
    /\ UNCHANGED <<users, verifying>>
    /\ LET r == Registry_verifyTodo(ledger, todoId, expectedHash) IN
       /\ resp' = [NoTx EXCEPT !.op = "verifyTodo", !.sender = sender, !.todoId = todoId,
                               !.hash = expectedHash, !.ok = r.ok,
                               !.error = IF r.ok THEN "" ELSE "Todo does not exist",
                               !.isValid = r.value]
       /\ UNCHANGED <<todos, ledger, tasks, toggling, nreq, hist>>

callGetTodo(sender, todoId) ==
    /\ UNCHANGED <<users, verifying>>
    /\ LET r == Registry_getTodo(ledger, todoId) IN
       /\ resp' = [NoTx EXCEPT !.op = "getTodo", !.sender = sender, !.todoId = todoId,
                               !.ok = r.ok,
                               !.error = IF r.ok THEN "" ELSE "Todo does not exist",
                               !.record = r.value]
       /\ UNCHANGED <<todos, ledger, tasks, toggling, nreq, hist>>

callTodoExistsByID(sender, todoId) ==
    /\ UNCHANGED <<users, verifying>>
    /\ /\ resp' = [NoTx EXCEPT !.op = "todoExistsByID", !.sender = sender, !.todoId = todoId,
                               !.ok = TRUE,
                               !.isValid = Registry_todoExistsByID(ledger, todoId)]
       /\ UNCHANGED <<todos, ledger, tasks, toggling, nreq, hist>>

LedgerNext ==
    \E sender \in Addresses : \E todoId \in RecordIds \cup {EmptyId} :
        \/ \E h \in Hashes : txCreateTodo(sender, todoId, h)
        \/ \E h \in Hashes : txUpdateTodo(sender, todoId, h)
        \/ txDeleteTodo(sender, todoId)
        \/ txRestoreTodo(sender, todoId)
        \/ \E h \in Hashes : callVerifyTodo(sender, todoId, h)
        \/ callGetTodo(sender, todoId)
        \/ callTodoExistsByID(sender, todoId)

LedgerSpec == LedgerInit /\ [][LedgerNext]_vars

(* the step is a call of one of ops on the contract *)
Called(ops) == resp'.op \in ops

NotOwnerError == "Not authorized: caller is not the todo owner"
NotFoundError == "Todo does not exist"

(* C24: a createTodo succeeds exactly when the id is not empty, the hash   *)
(* is not the zero digest and the id has no record; the record it stores   *)
(* has the hash, the sender as owner, a timestamp above 0 and is not       *)
(* deleted; a rejected createTodo, from any sender, leaves the ledger with *)
(* every record as it was.                                                 *)
C24_CreateTodo ==
    [][Called({"createTodo"}) =>
        LET id == resp'.todoId IN
        /\ resp'.ok <=> /\ id # EmptyId
                        /\ resp'.hash # ZeroHash
                        /\ ~RecordExists(ledger, id)
        /\ resp'.ok => /\ ledger'[id].todoHash = resp'.hash
                       /\ ledger'[id].owner = resp'.sender
                       /\ ledger'[id].timestamp > 0
                       /\ ~ledger'[id].isDeleted
        /\ ~resp'.ok => ledger' = ledger]_vars

(* C24 witness: an address that is not the owner of an existing, updated   *)
(* record has sent createTodo for its id with a valid hash and was         *)
(* rejected; the record is as its history says.                            *)
C24_Witness ==
    /\ resp.op = "createTodo"
    /\ ~resp.ok
    /\ resp.error = "Todo already exists"
    /\ resp.hash # ZeroHash
    /\ RecordExists(ledger, resp.todoId)
    /\ resp.sender # ledger[resp.todoId].owner
    /\ hist[resp.todoId].writes = 2
    /\ ledger[resp.todoId].todoHash = hist[resp.todoId].written

(* C25: updateTodo, deleteTodo and restoreTodo on an existing record sent  *)
(* by an address that did not create the record fail with the not-owner    *)
(* error and leave the ledger unchanged.                                   *)
C25_OwnershipIsolation ==
    [][/\ Called({"updateTodo", "deleteTodo", "restoreTodo"})
       /\ RecordExists(ledger, resp'.todoId)
       /\ resp'.sender # hist[resp'.todoId].creator
       => /\ ~resp'.ok
          /\ resp'.error = NotOwnerError
          /\ ledger' = ledger]_vars

(* C25 witness: after the creator deleted its record, another address      *)
(* tried to restore it and got the not-owner error.                        *)
C25_Witness ==
    /\ resp.op = "restoreTodo"
    /\ resp.error = NotOwnerError
    /\ ledger[resp.todoId].isDeleted
    /\ resp.sender # hist[resp.todoId].creator

(* C26: updateTodo, deleteTodo, restoreTodo, verifyTodo and getTodo for an *)
(* id without a record fail with 'Todo does not exist', and the ledger has *)
(* no record for the id afterwards.                                        *)
C26_NoRecordNotFound ==
    [][/\ Called({"updateTodo", "deleteTodo", "restoreTodo", "verifyTodo", "getTodo"})
       /\ ~RecordExists(ledger, resp'.todoId)
       => /\ ~resp'.ok
          /\ resp'.error = NotFoundError
          /\ ~RecordExists(ledger', resp'.todoId)
          /\ ledger' = ledger]_vars

(* C26 witness: getTodo for an id without a record failed while the other  *)
(* id has a record.                                                        *)
C26_Witness ==
    /\ resp.op = "getTodo"
    /\ resp.error = NotFoundError
    /\ resp.todoId \in RecordIds
    /\ \E id \in RecordIds : RecordExists(ledger, id)

(* C27: an updateTodo sent by the creator of an existing record is         *)
(* rejected, and the stored hash stays, when the record is deleted or the  *)
(* new hash is the zero digest; otherwise it succeeds and the stored hash  *)
(* is the new hash.                                                        *)
C27_UpdateTodo ==
    [][/\ Called({"updateTodo"})
       /\ RecordExists(ledger, resp'.todoId)
       /\ resp'.sender = hist[resp'.todoId].creator
       => LET id == resp'.todoId IN
          IF ledger[id].isDeleted \/ resp'.hash = ZeroHash
          THEN ~resp'.ok /\ ledger'[id].todoHash = ledger[id].todoHash
          ELSE resp'.ok /\ ledger'[id].todoHash = resp'.hash]_vars

(* C27 witness: the creator's updateTodo with a new, valid hash was        *)
(* rejected because the record is deleted; the stored hash is the old one. *)
C27_Witness ==
    /\ resp.op = "updateTodo"
    /\ resp.error = "Cannot update deleted todo"
    /\ resp.hash # ZeroHash
    /\ resp.hash # ledger[resp.todoId].todoHash
    /\ ledger[resp.todoId].todoHash = hist[resp.todoId].written

(* C28: a deleteTodo succeeds only on a record that is not deleted, and    *)
(* the record is deleted afterwards; a restoreTodo succeeds only on a      *)
(* deleted record, and the record is not deleted afterwards; the last      *)
(* successful deleteTodo or restoreTodo before a successful deleteTodo is  *)
(* not a deleteTodo, and before a successful restoreTodo it is a           *)
(* deleteTodo.                                                             *)
C28_DeleteRestoreAlternate ==
    [][LET id == resp'.todoId IN
       /\ Called({"deleteTodo"}) /\ resp'.ok
          => /\ ~ledger[id].isDeleted
             /\ ledger'[id].isDeleted
             /\ hist[id].lastFlagOp # "deleteTodo"
       /\ Called({"restoreTodo"}) /\ resp'.ok
          => /\ ledger[id].isDeleted
             /\ ~ledger'[id].isDeleted
             /\ hist[id].lastFlagOp = "deleteTodo"
       /\ Called({"deleteTodo"}) /\ RecordExists(ledger, id) /\ ledger[id].isDeleted
          => ~resp'.ok
       /\ Called({"restoreTodo"}) /\ RecordExists(ledger, id) /\ ~ledger[id].isDeleted
          => ~resp'.ok]_vars

(* C28 witness: the owner's second deleteTodo in a row was rejected.       *)
C28_Witness ==
    /\ resp.op = "deleteTodo"
    /\ resp.error = "Todo is already deleted"
    /\ resp.sender = ledger[resp.todoId].owner
    /\ hist[resp.todoId].lastFlagOp = "deleteTodo"

(* C29: for an existing record, verifyTodo answers true exactly for the    *)
(* hash that the last successful createTodo or updateTodo of the id wrote, *)
(* and getTodo answers that hash, the address that created the record, the *)
(* block time of the creation, and whether the last successful deleteTodo  *)
(* or restoreTodo of the id was a deleteTodo.                              *)
C29_VerifyAndGet ==
    /\ resp.op = "verifyTodo" /\ RecordExists(ledger, resp.todoId)
       => resp.ok /\ (resp.isValid <=> resp.hash = hist[resp.todoId].written)
    /\ resp.op = "getTodo" /\ RecordExists(ledger, resp.todoId)
       => /\ resp.ok
          /\ resp.record = [todoHash |-> hist[resp.todoId].written,
                            owner |-> hist[resp.todoId].creator,
                            timestamp |-> hist[resp.todoId].createdAt,
                            isDeleted |-> hist[resp.todoId].lastFlagOp = "deleteTodo"]

(* C29 witness: verifyTodo answered true for the hash of an updateTodo on  *)
(* a record that has been deleted since.                                   *)
C29_Witness ==
    /\ resp.op = "verifyTodo"
    /\ resp.isValid
    /\ hist[resp.todoId].writes = 2
    /\ ledger[resp.todoId].isDeleted

(* C30: a deleteTodo or restoreTodo changes nothing but the deletion flag  *)
(* of its record, whose hash stays the last one written; no step changes   *)
(* the owner or the timestamp of an existing record; no step changes the   *)
(* record of an id other than the one it was called with.                  *)
C30_LedgerFrame ==
    [][/\ Called({"deleteTodo", "restoreTodo"}) /\ resp'.todoId \in RecordIds
          => /\ ledger'[resp'.todoId] =
                    [ledger[resp'.todoId] EXCEPT !.isDeleted = ledger'[resp'.todoId].isDeleted]
             /\ ledger'[resp'.todoId].todoHash = hist[resp'.todoId].written
       /\ \A id \in RecordIds :
            /\ RecordExists(ledger, id)
               => /\ ledger'[id].owner = ledger[id].owner
                  /\ ledger'[id].timestamp = ledger[id].timestamp
            /\ id # resp'.todoId => ledger'[id] = ledger[id]]_vars

(* C30 witness: two addresses own one record each, and one of the records  *)
(* has just been restored by its owner.                                    *)
C30_Witness ==
    /\ resp.op = "restoreTodo"
    /\ resp.ok
    /\ \A id \in RecordIds : RecordExists(ledger, id)
    /\ ledger[1].owner # ledger[2].owner

(* C31: todoExistsByID answers true exactly for the ids for which a        *)
(* createTodo has succeeded, and no step takes an id from true to false.   *)
C31_RecordsAreNeverRemoved ==
    [][/\ Called({"todoExistsByID"})
          => (resp'.isValid <=> /\ resp'.todoId \in RecordIds
                                /\ hist[resp'.todoId].writes > 0)
       /\ \A id \in RecordIds :
            Registry_todoExistsByID(ledger, id) => Registry_todoExistsByID(ledger', id)]_vars

(* C31 witness: todoExistsByID answered true for a record that its owner   *)
(* has deleted.                                                            *)
C31_Witness ==
    /\ resp.op = "todoExistsByID"
    /\ resp.isValid
    /\ ledger[resp.todoId].isDeleted

(* C33: an updateTodo, deleteTodo or restoreTodo for an id without a       *)
(* record fails with 'Todo does not exist' for every sender, the empty id  *)
(* included; for an id with a record, sent by an address that did not      *)
(* create it, it fails with the not-owner error, whether the record is     *)
(* deleted or not and whatever the hash.                                   *)
C33_ErrorPrecedence ==
    [][Called({"updateTodo", "deleteTodo", "restoreTodo"}) =>
        LET id == resp'.todoId IN
        IF ~RecordExists(ledger, id)
        THEN resp'.error = NotFoundError
        ELSE resp'.sender # hist[id].creator => resp'.error = NotOwnerError]_vars

(* C33 witness: an address that did not create a record sent updateTodo    *)
(* with the zero hash for it while it was deleted, and got the not-owner   *)
(* error.                                                                  *)
C33_Witness ==
    /\ resp.op = "updateTodo"
    /\ resp.hash = ZeroHash
    /\ RecordExists(ledger, resp.todoId)
    /\ ledger[resp.todoId].isDeleted
    /\ resp.sender # hist[resp.todoId].creator
    /\ resp.error = NotOwnerError

(* the store has nothing for the handler op to act on: the todo is         *)
(* missing, is another user's, is soft-deleted or, for restoreTodo, is not *)
(* soft-deleted                                                            *)
StoreRefuses(op, todoId, userId) ==
    \/ ~todos[todoId].exists
    \/ todos[todoId].userId # userId
    \/ todos[todoId].isDeleted # (op = "restoreTodo")

(* C32: an updateTodo, toggleComplete, deleteTodo or restoreTodo answers   *)
(* with the error exactly when the store refuses it (for toggleComplete:   *)
(* refuses its read); the step that answers with the error changes neither *)
(* the store nor the ledger and starts no background ledger call.          *)
C32_StoreErrorsAreSynchronous ==
    [][/\ resp' # resp
       /\ resp'.op \in {"updateTodo", "toggleComplete", "deleteTodo", "restoreTodo"}
       => IF resp'.status = "notFound"
          THEN /\ StoreRefuses(resp'.op, resp'.todoId, resp'.caller)
               /\ todos' = todos
               /\ ledger' = ledger
               /\ tasks' = tasks
               /\ resp'.ledgerCalls = <<>>
          ELSE IF resp'.op = "toggleComplete"
               THEN \E r \in toggling : r.todoId = resp'.todoId /\ r.userId = resp'.caller
               ELSE ~StoreRefuses(resp'.op, resp'.todoId, resp'.caller)]_vars

(* C32 witness: the owner's restoreTodo of a todo that is not deleted was  *)
(* answered with the error while a background sync of the todo was under   *)
(* way.                                                                    *)
C32_Witness ==
    /\ resp.op = "restoreTodo"
    /\ resp.status = "notFound"
    /\ todos[resp.todoId].exists
    /\ todos[resp.todoId].userId = resp.caller
    /\ ~todos[resp.todoId].isDeleted
    /\ InFlight(resp.todoId) # {}

(***************************************************************************)
(* AuthService: sessions.  A refresh token is a JWT signed with the        *)
(* refresh secret; the user document keeps a bcrypt hash of each token it  *)
(* was given, with the token's expiry.  Callers present tokens the service *)
(* has issued; time passes by tick.                                        *)
(***************************************************************************)
MaxLogins == 2
MaxRefreshTokens == 5
RefreshTtl == 2
AccessTtl == 1

NoToken == [userId |-> "", iat |-> 0, exp |-> 0]

(* jwt.sign(payload, secret, { expiresIn }) at time *)
jwtSign(userId, time, ttl) == [userId |-> userId, iat |-> time, exp |-> time + ttl]

(* jwt.verify of a token signed by the service: it throws once expired *)
jwtVerify(token, time) == time < token.exp

(* bcrypt.hash and bcrypt.compare *)
bcryptHash(token) == [bcrypt |-> token]
bcryptCompare(token, hashed) == hashed.bcrypt = token

(* the last n elements of an array: slice(-n) *)
LastN(seq, n) ==
    IF Len(seq) <= n THEN seq ELSE SubSeq(seq, Len(seq) - n + 1, Len(seq))

(* user.addRefreshToken(token, expiresAt) *)
addRefreshToken(user, token, expiresAt, time) ==
    [user EXCEPT !.refreshTokens =
        LastN(Append(@, [token |-> bcryptHash(token), createdAt |-> time,
                         expiresAt |-> expiresAt]), MaxRefreshTokens)]

(* user.removeRefreshToken(token): the first matching entry is spliced out *)
removeRefreshToken(user, token) ==
    LET rts == user.refreshTokens
        matches == {i \in 1..Len(rts) : bcryptCompare(token, rts[i].token)}
    IN  IF matches = {} THEN user
        ELSE LET i == CHOOSE k \in matches : \A other \in matches : k <= other
             IN  [user EXCEPT !.refreshTokens =
                    SubSeq(rts, 1, i - 1) \o SubSeq(rts, i + 1, Len(rts))]

(* user.refreshTokens.some((rt) => rt.expiresAt > new Date()) *)
hasValidRefreshToken(user, token, time) ==
    \E i \in 1..Len(user.refreshTokens) : user.refreshTokens[i].expiresAt > time

NoAuthResp == [op |-> "none", userId |-> "", token |-> NoToken, ok |-> FALSE,
               accessToken |-> NoToken, refreshToken |-> NoToken]

(* history of the sessions: the refresh tokens handed out, and those their *)
(* user has logged out with                                                *)
AuthInit ==
    /\ todos = [id \in TodoIds |-> NoTodo]
    /\ ledger = [id \in TodoIds |-> NoRecord]
    /\ tasks = {}
    /\ toggling = {}
    /\ resp = NoAuthResp
    /\ nreq = 0
    /\ hist = [issued |-> {}, loggedOut |-> {}]
    /\ users = [u \in Users |-> NoUser]
    /\ verifying = {}

(* register and login from the generation of the tokens on: credentials    *)
(* have been accepted                                                      *)
IssueTokens(op, userId) ==
    LET refreshToken == jwtSign(userId, clock, RefreshTtl)
        accessToken == jwtSign(userId, clock, AccessTtl)
    IN  /\ Cardinality(hist.issued \cup {refreshToken}) <= MaxLogins
        /\ users' = [users EXCEPT ![userId] =
                        addRefreshToken([@ EXCEPT !.exists = TRUE], refreshToken,
                                        clock + RefreshTtl, clock)]
        /\ hist' = [hist EXCEPT !.issued = @ \cup {refreshToken}]
        /\ resp' = [NoAuthResp EXCEPT !.op = op, !.userId = userId, !.ok = TRUE,
                                      !.accessToken = accessToken,
                                      !.refreshToken = refreshToken]
        /\ UNCHANGED <<todos, ledger, tasks, toggling, nreq, verifying>>

register(userId) ==
    /\ ~users[userId].exists
    /\ IssueTokens("register", userId)

login(userId) ==
    /\ users[userId].exists
    /\ IssueTokens("login", userId)

refreshAccessToken(refreshToken) ==
    /\ UNCHANGED <<todos, ledger, tasks, toggling, nreq, hist, users, verifying>>
    /\ LET user == users[refreshToken.userId]
           ok == /\ jwtVerify(refreshToken, clock)
                 /\ user.exists
                 /\ hasValidRefreshToken(user, refreshToken, clock)
       IN  resp' = [NoAuthResp EXCEPT
                        !.op = "refreshAccessToken", !.token = refreshToken, !.ok = ok,
                        !.accessToken = IF ok THEN jwtSign(refreshToken.userId, clock, AccessTtl)
                                        ELSE NoToken]

logout(userId, refreshToken) ==
    /\ UNCHANGED <<todos, ledger, tasks, toggling, nreq, verifying>>
    /\ IF users[userId].exists
       THEN /\ users' = [users EXCEPT ![userId] = removeRefreshToken(@, refreshToken)]
            /\ hist' = IF refreshToken.userId = userId
                       THEN [hist EXCEPT !.loggedOut = @ \cup {refreshToken}]
                       ELSE hist
            /\ resp' = [NoAuthResp EXCEPT !.op = "logout", !.userId = userId,
                                          !.token = refreshToken, !.ok = TRUE]
       ELSE /\ resp' = [NoAuthResp EXCEPT !.op = "logout", !.userId = userId,
                                          !.token = refreshToken]
            /\ UNCHANGED <<hist, users>>

AuthNext ==
    \/ \E u \in Users : register(u)
    \/ \E u \in Users : login(u)
    \/ \E t \in hist.issued : refreshAccessToken(t)
    \/ \E u \in Users, t \in hist.issued : logout(u, t)
    \/ tick

AuthSpec == AuthInit /\ [][AuthNext]_vars

(* C34: a refreshAccessToken with a refresh token that its user has logged *)
(* out with is rejected and hands out no access token.                     *)
C34_LoggedOutTokenIsRejected ==
    [][\A t \in hist.loggedOut :
            refreshAccessToken(t) => ~resp'.ok /\ resp'.accessToken = NoToken]_vars

(***************************************************************************)
(* verifyTodo await by await: the read of the store (getTodoById), the     *)
(* ledger's getTodo, the ledger's verifyTodo.  Other requests and the      *)
(* background syncs run in between.                                        *)
(***************************************************************************)
MaxVerifying == 1

(* up to the await of blockchainService.getTodo: the todo is read, its     *)
(* status checked and its hash computed                                    *)
verifyTodoRead(todoId, userId) ==
    /\ UNCHANGED <<todos, ledger, tasks, toggling, nreq, hist, users>>
    /\ LET todo == findById(todos, todoId, userId) IN
       IF ~todo.exists
       THEN /\ resp' = ErrorResponse("verifyTodo", userId, todoId, "notFound")
            /\ UNCHANGED verifying
       ELSE IF todo.blockchainSyncStatus # SYNCED
       THEN /\ resp' = ErrorResponse("verifyTodo", userId, todoId, "badRequest")
            /\ UNCHANGED verifying
       ELSE /\ Cardinality(verifying) < MaxVerifying
            /\ verifying' = verifying \cup
                    {[todoId |-> todoId, userId |-> userId, pc |-> "getTodo",
                      currentHash |-> generateTodoHash(todo), blockchainData |-> NoRecord]}
            /\ UNCHANGED resp

(* blockchainService.getTodo answers *)
verifyTodoGetTodo(v) ==
    /\ v.pc = "getTodo"
    /\ UNCHANGED <<todos, ledger, tasks, toggling, nreq, hist, users>>
    /\ LET r == Registry_getTodo(ledger, v.todoId) IN
       IF r.ok
       THEN /\ verifying' = (verifying \ {v}) \cup
                    {[v EXCEPT !.pc = "verifyTodo", !.blockchainData = r.value]}
            /\ UNCHANGED resp
       ELSE /\ verifying' = verifying \ {v}
            /\ resp' = [ErrorResponse("verifyTodo", v.userId, v.todoId, "error") EXCEPT
                            !.ledgerCalls = <<"getTodo">>]

(* blockchainService.verifyTodo answers, and verifyTodo returns *)
verifyTodoReturn(v) ==
    /\ v.pc = "verifyTodo"
    /\ UNCHANGED <<todos, ledger, tasks, toggling, nreq, hist, users>>
    /\ verifying' = verifying \ {v}
    /\ LET r == Registry_verifyTodo(ledger, v.todoId, v.currentHash) IN
       resp' = IF r.ok
               THEN [op |-> "verifyTodo", caller |-> v.userId, todoId |-> v.todoId,
                     status |-> "ok", isValid |-> r.value, mongoHash |-> v.currentHash,
                     blockchainHash |-> v.blockchainData.todoHash,
                     blockchainData |-> v.blockchainData,
                     ledgerCalls |-> <<"getTodo", "verifyTodo">>]
               ELSE [ErrorResponse("verifyTodo", v.userId, v.todoId, "error") EXCEPT
                            !.ledgerCalls = <<"getTodo", "verifyTodo">>]

VerifyNext ==
    \/ \E u \in Users, data \in CreateDTOs : createTodo(u, data)
    \/ \E id \in TodoIds, u \in Users, data \in UpdateDTOs : updateTodo(id, u, data)
    \/ \E id \in TodoIds, u \in Users : toggleCompleteRead(id, u)
    \/ \E r \in toggling : toggleCompleteSave(r)
    \/ \E id \in TodoIds, u \in Users : deleteTodo(id, u)
    \/ \E id \in TodoIds, u \in Users : restoreTodo(id, u)
    \/ \E id \in TodoIds, u \in Users : getTodoById(id, u)
    \/ \E id \in TodoIds, u \in Users : verifyTodoRead(id, u)
    \/ \E v \in verifying : verifyTodoGetTodo(v)
    \/ \E v \in verifying : verifyTodoReturn(v)
    \/ \E t \in tasks : blockchainCall(t)
    \/ \E t \in tasks : blockchainUnavailable(t)
    \/ \E t \in tasks : writeEnvelope(t)

VerifySpec == Init /\ [][VerifyNext]_vars

(* C39: in every result that verifyTodo returns, isValid is TRUE exactly   *)
(* when the mongoHash and the blockchainHash of the result are equal.      *)
C39_VerifyResultIsConsistent ==
    (resp.op = "verifyTodo" /\ resp.status = "ok")
    => (resp.isValid <=> resp.mongoHash = resp.blockchainHash)

(* C35: in every reachable state a todo whose blockchainSyncStatus is      *)
(* synced has a record on the ledger, and no verifyTodo has ended with an  *)
(* error from the ledger.                                                  *)
C35_SyncedTodoHasLedgerRecord ==
    /\ \A id \in TodoIds :
            (todos[id].exists /\ todos[id].blockchainSyncStatus = SYNCED)
            => RecordExists(ledger, id)
    /\ ~(resp.op = "verifyTodo" /\ resp.status = "error")

(* C35 witness: verifyTodo has returned for a synced todo while the record *)
(* of the todo on the ledger is flagged deleted.                           *)
C35_Witness ==
    /\ resp.op = "verifyTodo"
    /\ resp.status = "ok"
    /\ todos[resp.todoId].blockchainSyncStatus = SYNCED
    /\ ledger[resp.todoId].isDeleted

(* C36: the step that ends a create or update sync whose ledger write was  *)
(* confirmed leaves the todo synced with the hash and the transaction      *)
(* reference of that write, whatever the handlers did to the todo since    *)
(* the sync was started.                                                   *)
C36_ConfirmedSyncIsRecorded ==
    [][\A t \in Written :
            t.ok => /\ todos'[t.todoId].blockchainSyncStatus = SYNCED
                    /\ todos'[t.todoId].blockchainHash = t.hash
                    /\ todos'[t.todoId].blockchainTxHash = t.tid]_vars

(***************************************************************************)
(* The service with a provider that does not fail: every ledger call of a  *)
(* background promise reaches the contract, in any order.                  *)
(***************************************************************************)
DeliveredNext ==
    \/ \E u \in Users, data \in CreateDTOs : createTodo(u, data)
    \/ \E id \in TodoIds, u \in Users, data \in UpdateDTOs : updateTodo(id, u, data)
    \/ \E id \in TodoIds, u \in Users : toggleCompleteRead(id, u)
    \/ \E r \in toggling : toggleCompleteSave(r)
    \/ \E id \in TodoIds, u \in Users : deleteTodo(id, u)
    \/ \E id \in TodoIds, u \in Users : restoreTodo(id, u)
    \/ \E id \in TodoIds, u \in Users : getTodoById(id, u)
    \/ \E id \in TodoIds, u \in Users : verifyTodo(id, u)
    \/ \E t \in tasks : blockchainCall(t)
    \/ \E t \in tasks : writeEnvelope(t)

DeliveredSpec == Init /\ [][DeliveredNext]_vars

(* C37: when the ledger call of a deleteTodo or restoreTodo that was made  *)
(* on a synced todo comes back and no background promise of the todo is    *)
(* left, the isDeleted of the ledger record is the isDeleted of the todo.  *)
C37_DeletionFlagsAgree ==
    [][\A t \in tasks :
            (/\ t \notin tasks'
             /\ t.op \in {"delete", "restore"}
             /\ t.prevStatus = SYNCED
             /\ \A o \in tasks' : o.todoId # t.todoId)
            => ledger'[t.todoId].isDeleted = todos'[t.todoId].isDeleted]_vars

(* C38: every toggleComplete that returns successfully inverts the stored  *)
(* completion flag, also when another toggleComplete of the same todo is   *)
(* between its read and its save, so that no toggle is lost.               *)
C38_ToggleInvertsStoredFlag ==
    [][\A r \in toggling :
            toggleCompleteSave(r)
            => todos'[r.todoId].isCompleted = ~todos[r.todoId].isCompleted]_vars

(***************************************************************************)
(* The service on a store whose synced todo carries recorded failures of   *)
(* earlier syncs: the failure count and the error are fields of the        *)
(* document (todo.model.ts) that updateBlockchainStatus is written to      *)
(* set. The envelope of the todo is drawn from RecordedFailures; the       *)
(* rest of the state is the one after createTodo and its sync.             *)
(***************************************************************************)
RecordedFailures ==
    {[syncRetryCount |-> 1, blockchainSyncError |-> "timeout"],
     [syncRetryCount |-> 2, blockchainSyncError |-> "Todo does not exist"]}

RetryInit ==
    /\ \E e \in RecordedFailures :
           todos = [id \in TodoIds |->
                       IF id = 1
                       THEN ApplySet(RecordSynced([i \in TodoIds |-> SyncedTodo],
                                                  SyncedTask, 2).store[1], e)
                       ELSE NoTodo]
    /\ ledger = Registry_createTodo([id \in TodoIds |-> NoRecord], Wallet, 2, 1,
                                    SyncedTask.hash).ledger
    /\ tasks = {}
    /\ toggling = {}
    /\ resp = Response(1, "createTodo", "u1", 1, "ok", SyncedTodo)
    /\ nreq = 1
    /\ hist = [id \in TodoIds |->
                    [changed |-> FALSE, createSynced |-> id = 1, lost |-> FALSE,
                     tampered |-> FALSE]]
    /\ users = [u \in Users |-> NoUser]
    /\ verifying = {}

RetrySpec == (Init \/ RetryInit) /\ [][Next]_vars

(* C40: the envelope write of a successful sync leaves syncRetryCount and  *)
(* the stored sync error of the todo as they were, and no step of the      *)
(* service makes the syncRetryCount of a stored todo smaller.              *)
C40_SuccessKeepsFailureRecord ==
    [][/\ \A t \in Written :
            t.ok => /\ todos'[t.todoId].syncRetryCount = todos[t.todoId].syncRetryCount
                    /\ todos'[t.todoId].blockchainSyncError
                         = todos[t.todoId].blockchainSyncError
       /\ \A id \in TodoIds :
            (todos[id].exists /\ todos'[id].exists)
            => todos'[id].syncRetryCount >= todos[id].syncRetryCount]_vars

(* C40 witness: a todo with recorded failures has been updated and synced  *)
(* again; it is synced and still carries the count and the error.          *)
C40_Witness ==
    \E id \in TodoIds :
        /\ todos[id].blockchainSyncStatus = SYNCED
        /\ todos[id].blockchainSyncedAt > 2
        /\ todos[id].syncRetryCount > 0
        /\ todos[id].blockchainSyncError # Undefined

====
